---- MODULE Spec2Model ----
(***************************************************************************)
(* Model of the scene-build pipeline of renderer/blender/render_tiles.py:  *)
(* main() creates one building mesh per footprint (create_building),       *)
(* scatters trees by rejection sampling (scatter_trees), plans the tile    *)
(* grid (calculate_tile_grid), frames the camera and writes the manifest.  *)
(*                                                                         *)
(* Numbers.  World lengths are fixed-point numbers with one fractional     *)
(* bit: the model stores 2 * length, so W(3) is the literal 3.0 and a      *)
(* padding of 7.5 is stored as 15.  Longitudes and latitudes are           *)
(* fixed-point degrees with DegDen units per degree.  A quotient that is   *)
(* not a fixed-point number (the projection parameter t, the crossing      *)
(* abscissa of the ray cast) is never rounded: the comparison it feeds is  *)
(* cross-multiplied, so the geometric tests are exact.                     *)
(***************************************************************************)
EXTENDS Integers, Sequences, FiniteSets, TLC

\* ------------------------------------------------------------------ bounds

\* Largest --trees argument the model draws.
MaxCount == 2
\* random.random() returns one of 0/RandDen .. (RandDen-1)/RandDen.
RandDen == 3
\* Content bounds of the grid scenarios are drawn from -MaxCoord..MaxCoord.
MaxCoord == 2
\* World tile sizes of the grid scenarios are drawn from -1..MaxTile.
MaxTile == 2
\* The states of the random generator are 0..RngMod-1.
RngMod == 16
\* Largest number of mesh objects an import of Google 3D Tiles adds.
MaxMeshes == 2

\* --------------------------------------------------------------- constants

\* render_tiles.py:23 and :1814, the default worldTileSize.
WORLD_TILE_SIZE == 15
\* render_tiles.py:22 and :1813, the default tileSize (pixels).
TILE_SIZE == 512
\* render_tiles.py:978, max_attempts = count * 20.
MaxAttemptsMultiplier == 20
\* render_tiles.py:1418 and :928, meters_per_deg_lat.
meters_per_deg_lat == 111320

\* A world length literal as a fixed-point number.
W(n) == 2 * n
\* Units per degree of the fixed-point longitudes and latitudes.
DegDen == meters_per_deg_lat

Abs(n) == IF n < 0 THEN -n ELSE n
Max(a, b) == IF a > b THEN a ELSE b
Min(a, b) == IF a < b THEN a ELSE b

\* The greatest common divisor of |a| and |b|, 0 for a = b = 0.
RECURSIVE Gcd(_, _)
Gcd(a, b) == IF b = 0 THEN Abs(a) ELSE Gcd(Abs(b), Abs(a) % Abs(b))

\* math.ceil(a / b) for b # 0 (Python's true division, then ceil).
Ceil(a, b) == IF b > 0 THEN -((-a) \div b) ELSE -(a \div (-b))

\* An optional value: <<>> is None, <<v>> is v.
None == <<>>
Some(v) == <<v>>
IsSome(o) == Len(o) = 1
Val(o) == o[1]

\* -------------------------------------------------------------- projection

\* 2 * math.cos(center_lat * math.pi / 180), at the whole degrees the model
\* uses (cos 0 = 1, cos 60 = 1/2, cos 90 = 0).
Cos2(center_lat) ==
  LET deg == Abs((center_lat + DegDen \div 2) \div DegDen)
  IN  CASE deg = 0 -> 2
        [] deg = 60 -> 1
        [] deg = 90 -> 0
        [] deg = 120 -> -1
        [] deg = 180 -> -2

\* 2 * meters_per_deg_lon.
meters_per_deg_lon2(center_lat) == meters_per_deg_lat * Cos2(center_lat)

\* Mutants of Project: z without the negation, and the scale left out.
ProjectNorthPositive(coord, sd) ==
  << ((coord[1] - sd.centerLon) * meters_per_deg_lon2(sd.centerLat) * sd.scale) \div DegDen,
     ((coord[2] - sd.centerLat) * W(meters_per_deg_lat) * sd.scale) \div DegDen >>
ProjectUnscaled(coord, sd) ==
  << ((coord[1] - sd.centerLon) * meters_per_deg_lon2(sd.centerLat)) \div DegDen,
     (-(coord[2] - sd.centerLat) * W(meters_per_deg_lat)) \div DegDen >>

\* x = (lon - center_lon) * meters_per_deg_lon * scale
\* z = -(lat - center_lat) * meters_per_deg_lat * scale
Project(coord, sd) ==
  << ((coord[1] - sd.centerLon) * meters_per_deg_lon2(sd.centerLat) * sd.scale) \div DegDen,
     (-(coord[2] - sd.centerLat) * W(meters_per_deg_lat) * sd.scale) \div DegDen >>

ProjectAll(coords, sd) == [i \in 1..Len(coords) |-> Project(coords[i], sd)]

\* The inverse formulas of the projection:
\*   lon = centerLon + x / (metersPerDegLon * scale)
\*   lat = centerLat - z / (metersPerDegLat * scale)
\* for a scale and a cosine of the centre latitude other than 0.
Unproject(p, sd) ==
  << sd.centerLon + (p[1] * DegDen) \div (meters_per_deg_lon2(sd.centerLat) * sd.scale),
     sd.centerLat - (p[2] * DegDen) \div (W(meters_per_deg_lat) * sd.scale) >>

\* ---------------------------------------------------------- create_building

\* render_tiles.py:25, HEIGHT_SCALE = 0.8 = HEIGHT_SCALE_NUM / HEIGHT_SCALE_DEN.
HEIGHT_SCALE_NUM == 4
HEIGHT_SCALE_DEN == 5

\* scaled_height = height * scene_data["scale"] * HEIGHT_SCALE
scaled_height(height, sd) ==
  (W(height) * sd.scale * HEIGHT_SCALE_NUM) \div HEIGHT_SCALE_DEN

\* verts_2d after the closing duplicate is removed: the last vertex is dropped
\* when it equals the first.
DropClosing(verts_2d) ==
  IF verts_2d[1] = verts_2d[Len(verts_2d)]
  THEN SubSeq(verts_2d, 1, Len(verts_2d) - 1)
  ELSE verts_2d

\* bm.verts.new((v[0], 0, v[1])): the vertex of the polygon at the height y.
Vert3(v, y) == <<v[1], y, v[2]>>

\* Mutant of extrude_face_region: no quad on the edge that closes the polygon.
ExtrudeOpenRing(verts, height) ==
  << [part |-> "bottom", verts |-> [i \in 1..Len(verts) |-> Vert3(verts[i], 0)]],
     [part |-> "top", verts |-> [i \in 1..Len(verts) |-> Vert3(verts[i], height)]] >>
  \o [i \in 1..(Len(verts) - 1) |->
        [part |-> "side",
         verts |-> << Vert3(verts[i], 0), Vert3(verts[i + 1], 0),
                      Vert3(verts[i + 1], height), Vert3(verts[i], height) >>]]

\* The faces of the mesh after bottom_face = bm.faces.new(bottom_verts),
\* bmesh.ops.extrude_face_region(bm, geom=[bottom_face]) and v.co.y +=
\* scaled_height for the extruded vertices: the bottom face, which the
\* extrusion of a face that borders no other face keeps, its extruded copy,
\* and one quad for each edge of the polygon.
extrude_face_region(verts, height) ==
  << [part |-> "bottom", verts |-> [i \in 1..Len(verts) |-> Vert3(verts[i], 0)]],
     [part |-> "top", verts |-> [i \in 1..Len(verts) |-> Vert3(verts[i], height)]] >>
  \o [i \in 1..Len(verts) |->
        [part |-> "side",
         verts |-> << Vert3(verts[i], 0), Vert3(verts[(i % Len(verts)) + 1], 0),
                      Vert3(verts[(i % Len(verts)) + 1], height), Vert3(verts[i], height) >>]]

\* One component of the face normal before it is normalised (Newell's
\* method): the sum over the edges from vertex k to the next one of
\* (vs[k][a] - next[a]) * (vs[k][b] + next[b]), for k = i .. Len(vs).
RECURSIVE NewellSum(_, _, _, _)
NewellSum(vs, i, a, b) ==
  IF i > Len(vs) THEN 0
  ELSE (vs[i][a] - vs[(i % Len(vs)) + 1][a]) * (vs[i][b] + vs[(i % Len(vs)) + 1][b])
       + NewellSum(vs, i + 1, a, b)

\* poly.normal, not normalised: <<x, y, z>>.  A face of no area has the
\* components 0, 0, 0.
Normal(vs) == << NewellSum(vs, 1, 2, 3), NewellSum(vs, 1, 3, 1), NewellSum(vs, 1, 1, 2) >>

\* abs(poly.normal.y) > 0.9, for the normal no before it is normalised:
\* y * y > 0.81 * (x * x + y * y + z * z), compared after the components are
\* divided by their greatest common divisor g.  The normal of a face of no
\* area has no y component.
NearHorizontal(no) ==
  LET g == Gcd(no[1], Gcd(no[2], no[3]))
  IN  /\ g # 0
      /\ 19 * (no[2] \div g) * (no[2] \div g)
           > 81 * ((no[1] \div g) * (no[1] \div g) + (no[3] \div g) * (no[3] \div g))

\* The sum of the y coordinates of the vertices i .. Len(vs).
RECURSIVE SumY(_, _)
SumY(vs, i) == IF i > Len(vs) THEN 0 ELSE vs[i][2] + SumY(vs, i + 1)

\* Mutant of FaceRole: a roof is a near-horizontal face above the ground.
FaceRoleAboveGround(vs, height) ==
  IF NearHorizontal(Normal(vs))
  THEN IF SumY(vs, 1) > 0 THEN "roof" ELSE "floor"
  ELSE "wall"

\* The branch the material loop takes for a face: poly.center.y is the mean
\* of the vertices' y, and poly.center.y > scaled_height * 0.5 is compared
\* after multiplying by 2 * len(vs).
FaceRole(vs, height) ==
  IF NearHorizontal(Normal(vs))
  THEN IF 2 * SumY(vs, 1) > Len(vs) * height THEN "roof" ELSE "floor"
  ELSE "wall"

\* poly.material_index: 1 is roof_mat, 0 is wall_mat.
material_index(role) == IF role = "roof" THEN 1 ELSE 0

\* mesh.polygons after the material loop.
Polygons(verts, height) ==
  LET faces == extrude_face_region(verts, height)
  IN  [k \in 1..Len(faces) |->
         [part |-> faces[k].part,
          verts |-> faces[k].verts,
          role |-> FaceRole(faces[k].verts, height),
          material_index |-> material_index(FaceRole(faces[k].verts, height))]]

\* Mutant of CallerCoords: the closing duplicate is removed from the caller's
\* list itself.
CallerCoordsPopped(coords, sd) ==
  IF Len(coords) >= 3 /\ Project(coords[1], sd) = Project(coords[Len(coords)], sd)
  THEN SubSeq(coords, 1, Len(coords) - 1)
  ELSE coords

\* The caller's list b["coords"] when create_building returns.  The function
\* iterates coords and appends the projected vertices to its own list
\* verts_2d; verts_2d = verts_2d[:-1] binds the name to a new, shorter list.
\* Nothing is written to coords.
CallerCoords(coords, sd) == coords

\* create_building: None, or the mesh object linked into the scene.  face_ok
\* is the outcome of bm.faces.new(bottom_verts), which raises ValueError when
\* bmesh refuses the face.
create_building(b, sd, face_ok) ==
  LET verts_2d == ProjectAll(b.coords, sd)
  IN  IF Len(verts_2d) < 3 THEN None
      ELSE LET verts == DropClosing(verts_2d)
           IN  IF Len(verts) < 3 THEN None
               ELSE IF ~face_ok THEN None
               ELSE Some([name |-> "Building",
                          bottom |-> verts,
                          scaled_height |-> scaled_height(b.height, sd),
                          type |-> b.type,
                          id |-> b.id,
                          polygons |-> Polygons(verts, scaled_height(b.height, sd))])

\* ------------------------------------------------------------ scatter_trees

\* Build list of building polygons for collision detection: every footprint
\* with at least 3 coordinates, projected, closing duplicate kept.
RECURSIVE BuildPolys(_, _)
BuildPolys(buildings_data, sd) ==
  IF buildings_data = <<>> THEN <<>>
  ELSE LET poly == ProjectAll(Head(buildings_data).coords, sd)
           rest == BuildPolys(Tail(buildings_data), sd)
       IN  IF Len(poly) >= 3 THEN <<poly>> \o rest ELSE rest

\* Mutant of HalfOpenCrossing: the edge also counts when zi equals pz.
ClosedCrossing(zi, zj, pz) == (zi >= pz) # (zj > pz)

\* (zi > pz) != (zj > pz), the left operand of the and in point_in_polygon:
\* the right operand, with its division by zj - zi, is evaluated only when
\* this one is true.
HalfOpenCrossing(zi, zj, pz) == (zi > pz) # (zj > pz)

\* The values of zj - zi that point_in_polygon(px, pz, polygon) divides by.
CrossingDivisors(px, pz, polygon) ==
  { polygon[IF i = 1 THEN Len(polygon) ELSE i - 1][2] - polygon[i][2] :
      i \in { e \in 1..Len(polygon) :
                HalfOpenCrossing(polygon[e][2],
                                 polygon[IF e = 1 THEN Len(polygon) ELSE e - 1][2], pz) } }

\* One edge test of the ray cast, with i the current vertex and j the one
\* before it:  ((zi > pz) != (zj > pz)) and
\*             (px < (xj - xi) * (pz - zi) / (zj - zi) + xi)
\* The quotient is compared after multiplying by zj - zi, which is not 0 when
\* the first conjunct holds.
EdgeCrossed(px, pz, polygon, i) ==
  LET n == Len(polygon)
      j == IF i = 1 THEN n ELSE i - 1
      xi == polygon[i][1]
      zi == polygon[i][2]
      xj == polygon[j][1]
      zj == polygon[j][2]
  IN  /\ HalfOpenCrossing(zi, zj, pz)
      /\ IF zj - zi > 0
         THEN (px - xi) * (zj - zi) < (xj - xi) * (pz - zi)
         ELSE (px - xi) * (zj - zi) > (xj - xi) * (pz - zi)

\* Ray casting: inside is toggled once per crossed edge.
point_in_polygon(px, pz, polygon) ==
  Cardinality({i \in 1..Len(polygon) : EdgeCrossed(px, pz, polygon, i)}) % 2 = 1

\* length_sq of the edge from vertex i to the next one.
LengthSq(poly, i) ==
  LET dx == poly[(i % Len(poly)) + 1][1] - poly[i][1]
      dz == poly[(i % Len(poly)) + 1][2] - poly[i][2]
  IN  dx * dx + dz * dz

\* if length_sq > 0: the edges whose distance is_valid_tree_location computes.
EdgeTested(length_sq) == length_sq > 0

\* The values of length_sq that is_valid_tree_location divides by for poly.
LengthDivisors(poly) ==
  { LengthSq(poly, i) : i \in { e \in 1..Len(poly) : EdgeTested(LengthSq(poly, e)) } }

\* length_sq * t for t = max(0, min(1, dot / length_sq)) and length_sq > 0.
ClampedT(dot, length_sq) == Max(0, Min(length_sq, dot))

\* The edge test of is_valid_tree_location for the edge from vertex i to the
\* next one: TRUE when the edge rejects the point.  With L = length_sq and
\* tn = L * t, dist_sq < margin * margin is compared after multiplying by L * L.
EdgeTooClose(x, z, poly, i, margin) ==
  LET x1 == poly[i][1]
      z1 == poly[i][2]
      x2 == poly[(i % Len(poly)) + 1][1]
      z2 == poly[(i % Len(poly)) + 1][2]
      dx == x2 - x1
      dz == z2 - z1
      length_sq == LengthSq(poly, i)
      tn == ClampedT((x - x1) * dx + (z - z1) * dz, length_sq)
      ex == (x - x1) * length_sq - tn * dx
      ez == (z - z1) * length_sq - tn * dz
  IN  /\ EdgeTested(length_sq)
      /\ ex * ex + ez * ez < margin * margin * length_sq * length_sq

\* is_valid_tree_location(x, z, margin=2.0)
is_valid_tree_location(x, z, building_polys, margin) ==
  \A k \in 1..Len(building_polys) :
    /\ ~point_in_polygon(x, z, building_polys[k])
    /\ \A i \in 1..Len(building_polys[k]) :
         ~EdgeTooClose(x, z, building_polys[k], i, margin)

\* The default of is_valid_tree_location's margin parameter, 2.0.
TreeMargin == W(2)
\* margin = 3.0, the distance from the edge of the bounds.
EdgeMargin == W(3)

\* min + random.random() * (max - min), with random.random() = k / RandDen and
\* the product rounded down to a fixed-point number.
Sample(lo, hi, k) == lo + (k * (hi - lo)) \div RandDen

\* ------------------------------------------------------------------ random

\* Python's random module keeps one generator for the process; random.seed(S)
\* sets its state and every random.random(), random.randint() and
\* random.choice() call advances it.  The model's generator has RngMod states
\* and steps through them one call at a time.
NextRng(r) == (5 * r + 3) % RngMod

\* The state of the generator after n more calls.
RECURSIVE Advance(_, _)
Advance(r, n) == IF n <= 0 THEN r ELSE Advance(NextRng(r), n - 1)

\* random.random() in state r returns random(r) / RandDen.
random(r) == (r * RandDen) \div RngMod

\* Mutant of Draw: a value that does not come from the seeded generator.
DrawUnseeded(r, k) == k \in 0..(RandDen - 1)

\* k / RandDen is the value random.random() returns in state r.
Draw(r, k) == k = random(r)

\* style = "cluster" if random.random() > 0.3 else "cone"
TreeStyle(k) == IF 10 * k > 3 * RandDen THEN "cluster" ELSE "cone"

\* Tree scales are fixed-point numbers with ScaleDen units.
ScaleDen == 10 * RandDen
\* scale = 0.8 + random.random() * 0.6
TreeScale(k) == 8 * RandDen + 6 * k
\* create_tree: tree_scale = scale * (0.8 + random.random() * 0.4), in units
\* of 1 / (ScaleDen * ScaleDen).
tree_scale(scale, k) == scale * (8 * RandDen + 4 * k)

\* create_tree after tree_scale is drawn, in state r: the cluster style calls
\* random.randint(3, 5) and then, for each sphere, random.random() four times
\* and random.choice() once; the cone style calls random.choice() once.  The
\* result is the state of the generator when create_tree returns.
create_tree_canopy(r, style) ==
  IF style = "cluster"
  THEN LET num_spheres == 3 + (random(r) * 3) \div RandDen
       IN  Advance(r, 1 + 5 * num_spheres)
  ELSE Advance(r, 1)

\* ------------------------------------------------------ import_google_tiles

\* A file path: the part before the extension and os.path.splitext(path)[1].
\* The empty string is the path with both parts empty.
Path(name, ext) == [name |-> name, ext |-> ext]

\* ext.lower(), for the extensions of the model files.
Lower(ext) ==
  CASE ext = ".GLB" -> ".glb"
    [] ext = ".GLTF" -> ".gltf"
    [] ext = ".OBJ" -> ".obj"
    [] ext = ".FBX" -> ".fbx"
    [] OTHER -> ext

\* The extensions import_google_tiles has an import operator for.
SupportedFormats == {".glb", ".gltf", ".obj", ".fbx"}

\* bool(config) for the googleTilesConfig of the render config: None and the
\* empty dict are false.  A config is a record of its optional keys
\* modelPath and replaceBuildings; other says that it has further keys.
ConfigGiven(config) ==
  /\ IsSome(config)
  /\ \/ IsSome(Val(config).modelPath)
     \/ IsSome(Val(config).replaceBuildings)
     \/ Val(config).other

\* config.get("replaceBuildings", False)
ReplaceBuildings(config) ==
  IF IsSome(config.replaceBuildings) THEN Val(config.replaceBuildings) ELSE FALSE

\* not model_path or not os.path.exists(model_path), with files the paths
\* that exist.
ModelMissing(config, files) ==
  \/ ~IsSome(config.modelPath)
  \/ Val(config.modelPath) = Path("", "")
  \/ Val(config.modelPath) \notin files

\* The mesh objects an import added to bpy.data.objects.
TileObjects(n) == [k \in 1..n |-> [name |-> "GoogleTile", index |-> k]]

\* import_google_tiles(config, scene_data): the list it returns.  outcome is
\* what Blender does with a model file of a supported format: the import
\* operator raises ("raise"), it adds meshes mesh objects ("ok"), or it adds
\* them and transform_google_tiles or the Freestyle marking raises afterwards
\* ("late"); every exception is caught and the list built so far is returned.
import_google_tiles(config, files, outcome) ==
  IF ModelMissing(config, files) THEN <<>>
  ELSE IF Lower(Val(config.modelPath).ext) \notin SupportedFormats THEN <<>>
  ELSE IF outcome.kind = "raise" THEN <<>>
  ELSE TileObjects(outcome.meshes)

\* ------------------------------------------------------ calculate_tile_grid

\* range(n) as a sequence: 0, 1, .., n - 1, empty for n <= 0.
Range(n) == [k \in 1..n |-> k - 1]

\* Mutant of Tile: the tile's corner instead of its centre.
TileCorner(col, row, grid_min_x, grid_min_z, world_tile_size) ==
  [col |-> col,
   row |-> row,
   worldX |-> grid_min_x + col * world_tile_size,
   worldZ |-> grid_min_z + row * world_tile_size]

\* The tile the inner loop appends for (col, row).
Tile(col, row, grid_min_x, grid_min_z, world_tile_size) ==
  [col |-> col,
   row |-> row,
   worldX |-> grid_min_x + col * world_tile_size + world_tile_size \div 2,
   worldZ |-> grid_min_z + row * world_tile_size + world_tile_size \div 2]

\* tiles = []; for row in range(rows): for col in range(cols): tiles.append(..)
\* rs is what is left of range(rows).
RECURSIVE TileList(_, _, _, _, _)
TileList(rs, cols, grid_min_x, grid_min_z, world_tile_size) ==
  IF rs = <<>> THEN <<>>
  ELSE [c \in 1..Len(Range(cols)) |->
          Tile(Range(cols)[c], Head(rs), grid_min_x, grid_min_z, world_tile_size)]
       \o TileList(Tail(rs), cols, grid_min_x, grid_min_z, world_tile_size)

\* Mutants of Padding: the padding taken off instead of added, and a whole
\* tile of padding.
PaddingInward(world_tile_size) == -(world_tile_size \div 2)
PaddingWholeTile(world_tile_size) == world_tile_size

\* padding = world_tile_size * 0.5
Padding(world_tile_size) == world_tile_size \div 2

\* Mutant of GridCount: the quotient rounded down.
GridCountFloor(grid_min, grid_max, world_tile_size) ==
  (grid_max - grid_min) \div world_tile_size

\* cols (rows) = math.ceil((grid_max - grid_min) / world_tile_size)
GridCount(grid_min, grid_max, world_tile_size) ==
  Ceil(grid_max - grid_min, world_tile_size)

\* calculate_tile_grid(bounds, world_tile_size), for world_tile_size # 0 (the
\* division raises ZeroDivisionError for 0).
calculate_tile_grid(bounds, world_tile_size) ==
  LET padding == Padding(world_tile_size)
      grid_min_x == bounds.minX - padding
      grid_max_x == bounds.maxX + padding
      grid_min_z == bounds.minZ - padding
      grid_max_z == bounds.maxZ + padding
      cols == GridCount(grid_min_x, grid_max_x, world_tile_size)
      rows == GridCount(grid_min_z, grid_max_z, world_tile_size)
  IN  [tiles |-> TileList(Range(rows), cols, grid_min_x, grid_min_z, world_tile_size),
       cols |-> cols,
       rows |-> rows,
       gridBounds |-> [minX |-> grid_min_x, maxX |-> grid_max_x,
                       minZ |-> grid_min_z, maxZ |-> grid_max_z]]

\* ---------------------------------------------------------- parse_buildings

\* A Python str is the sequence of its characters.  Heights are fixed-point
\* numbers of metres with HeightDen units per metre.
HeightDen == 10

\* parse_buildings.py:23, DEFAULT_HEIGHT = 10.5
DEFAULT_HEIGHT == 105

UpperLetters ==
  <<"A", "B", "C", "D", "E", "F", "G", "H", "I", "J", "K", "L", "M", "N", "O", "P", "Q", "R", "S", "T", "U", "V", "W", "X", "Y", "Z">>
LowerLetters ==
  <<"a", "b", "c", "d", "e", "f", "g", "h", "i", "j", "k", "l", "m", "n", "o", "p", "q", "r", "s", "t", "u", "v", "w", "x", "y", "z">>

\* str.lower() of one character and of a string.
LowerChar(c) ==
  IF \E i \in 1..Len(UpperLetters) : UpperLetters[i] = c
  THEN LowerLetters[CHOOSE i \in 1..Len(UpperLetters) : UpperLetters[i] = c]
  ELSE c
ToLower(str) == [i \in 1..Len(str) |-> LowerChar(str[i])]

\* sub in str
Contains(str, sub) ==
  LET s == str
      n == Len(sub)
  IN  \E i \in 1..(Len(s) - n + 1) : \A j \in 1..n : s[i + j - 1] = sub[j]

\* str.replace(c, "") for a one-character c.
RemoveChar(str, c) == SelectSeq(str, LAMBDA x : x # c)

\* str.strip(), for strings whose only whitespace is the space.
RECURSIVE Strip(_)
Strip(str) ==
  IF str = <<>> THEN str
  ELSE IF Head(str) = " " THEN Strip(Tail(str))
  ELSE IF str[Len(str)] = " " THEN Strip(SubSeq(str, 1, Len(str) - 1))
  ELSE str

Digits == <<"0", "1", "2", "3", "4", "5", "6", "7", "8", "9">>
IsDigit(c) == \E i \in 1..Len(Digits) : Digits[i] = c
DigitValue(c) == (CHOOSE i \in 1..Len(Digits) : Digits[i] = c) - 1

\* The number a string of digits denotes.
RECURSIVE Decimal(_)
Decimal(ds) ==
  IF ds = <<>> THEN 0 ELSE 10 * Decimal(SubSeq(ds, 1, Len(ds) - 1)) + DigitValue(ds[Len(ds)])

AllDigits(str) == \A i \in 1..Len(str) : IsDigit(str[i])

\* The string without its sign, and the sign.
Unsigned(str) == IF str # <<>> /\ Head(str) \in {"+", "-"} THEN Tail(str) ELSE str
Sign(str) == IF str # <<>> /\ Head(str) = "-" THEN -1 ELSE 1

\* int(str): None for ValueError, else the integer.  Python accepts an
\* optional sign and digits between optional spaces.
ParseInt(str) ==
  LET body == Unsigned(Strip(str))
  IN  IF body # <<>> /\ AllDigits(body)
      THEN Some(Sign(Strip(str)) * Decimal(body))
      ELSE None

\* float(str): None for ValueError, else the value in units of 1 / HeightDen,
\* for the strings made of a sign, digits, at most one point with at most one
\* digit after it, spaces and letters other than e, i, n (no exponent, no
\* underscore, no "inf" or "nan").
ParseFloat(str) ==
  LET t == Strip(str)
      body == Unsigned(t)
      points == { i \in 1..Len(body) : body[i] = "." }
  IN  IF points = {}
      THEN IF body # <<>> /\ AllDigits(body) THEN Some(Sign(t) * HeightDen * Decimal(body))
           ELSE None
      ELSE LET p == CHOOSE i \in points : TRUE
               whole == SubSeq(body, 1, p - 1)
               frac == SubSeq(body, p + 1, Len(body))
           IN  IF /\ Cardinality(points) = 1
                  /\ AllDigits(whole) /\ AllDigits(frac)
                  /\ whole \o frac # <<>>
                  /\ Len(frac) <= 1
               THEN Some(Sign(t) * (HeightDen * Decimal(whole) + Decimal(frac)))
               ELSE None

\* parse_buildings.py:26, OSU_LANDMARKS, in the order of the dict.
OSU_LANDMARKS ==
  << [name |-> <<"O", "h", "i", "o", " ", "S", "t", "a", "d", "i", "u", "m">>, height |-> 30, type |-> "stadium"],
     [name |-> <<"T", "h", "o", "m", "p", "s", "o", "n", " ", "L", "i", "b", "r", "a", "r", "y">>, height |-> 25, type |-> "library"],
     [name |-> <<"O", "h", "i", "o", " ", "U", "n", "i", "o", "n">>, height |-> 20, type |-> "civic"],
     [name |-> <<"W", "e", "x", "n", "e", "r", " ", "C", "e", "n", "t", "e", "r">>, height |-> 18, type |-> "cultural"],
     [name |-> <<"M", "o", "r", "r", "i", "l", "l", " ", "T", "o", "w", "e", "r">>, height |-> 70, type |-> "residential"],
     [name |-> <<"L", "i", "n", "c", "o", "l", "n", " ", "T", "o", "w", "e", "r">>, height |-> 70, type |-> "residential"],
     [name |-> <<"S", "t", ".", " ", "J", "o", "h", "n", " ", "A", "r", "e", "n", "a">>, height |-> 25, type |-> "stadium"],
     [name |-> <<"M", "e", "r", "s", "h", "o", "n", " ", "A", "u", "d", "i", "t", "o", "r", "i", "u", "m">>, height |-> 20, type |-> "cultural"],
     [name |-> <<"K", "n", "o", "w", "l", "t", "o", "n", " ", "H", "a", "l", "l">>, height |-> 20, type |-> "university"],
     [name |-> <<"F", "i", "s", "h", "e", "r", " ", "C", "o", "l", "l", "e", "g", "e", " ", "o", "f", " ", "B", "u", "s", "i", "n", "e", "s", "s">>, height |-> 20, type |-> "university"] >>

\* landmark.lower() of each landmark.
LandmarkKeys == [k \in 1..Len(OSU_LANDMARKS) |-> ToLower(OSU_LANDMARKS[k].name)]

\* The landmarks whose lowered name is in the lowered name: the indices k
\* with landmark.lower() in name.lower().
Matches(name) ==
  LET lowered == ToLower(name)
  IN  { k \in 1..Len(OSU_LANDMARKS) : Contains(lowered, LandmarkKeys[k]) }

\* if name: for landmark, info in OSU_LANDMARKS.items(): if landmark.lower()
\* in name.lower(): the first landmark that matches, None when there is none
\* or the name is None or empty.  name is None or Some(str).
Landmark(name) ==
  IF IsSome(name) /\ Val(name) # <<>>
  THEN LET ms == Matches(Val(name))
       IN  IF ms # {} THEN Some(OSU_LANDMARKS[CHOOSE k \in ms : \A j \in ms : k <= j])
           ELSE None
  ELSE None

\* type_heights of estimate_height, in metres.
type_heights ==
  [university |-> 15, school |-> 12, college |-> 15, dormitory |-> 25, residential |-> 12,
   apartments |-> 20, stadium |-> 30, church |-> 18, chapel |-> 12, hospital |-> 25,
   commercial |-> 12, retail |-> 8, industrial |-> 10, warehouse |-> 8, garage |-> 6,
   parking |-> 15, house |-> 8, detached |-> 8, terrace |-> 9]

\* tags.get(key, default) for a key whose value is None when absent.
Get(value, default) == IF IsSome(value) THEN Val(value) ELSE default

\* The height tag as float(h) reads it: h.replace("m", "").replace("'", "")
\* .strip() first.
HeightTag(h) == ParseFloat(Strip(RemoveChar(RemoveChar(h, "m"), "'")))

\* Mutant of estimate_height: the tags are read before the landmarks.
estimate_height_tags_first(tags, name) ==
  LET info == Landmark(name)
  IN
  IF IsSome(tags.height) /\ IsSome(HeightTag(Val(tags.height)))
  THEN Val(HeightTag(Val(tags.height)))
  ELSE IF IsSome(tags.levels) /\ IsSome(ParseInt(Val(tags.levels)))
  THEN Val(ParseInt(Val(tags.levels))) * 35
  ELSE IF IsSome(info) THEN HeightDen * Val(info).height
  ELSE IF Get(tags.building, "yes") \in DOMAIN type_heights
  THEN HeightDen * type_heights[Get(tags.building, "yes")]
  ELSE DEFAULT_HEIGHT

\* estimate_height(tags, name), in units of 1 / HeightDen metres.  The tags
\* are a record of the optional keys: None when absent, else Some(value).
estimate_height(tags, name) ==
  LET info == Landmark(name)
  IN
  IF IsSome(info) THEN HeightDen * Val(info).height
  ELSE IF IsSome(tags.height) /\ IsSome(HeightTag(Val(tags.height)))
  THEN Val(HeightTag(Val(tags.height)))
  ELSE IF IsSome(tags.levels) /\ IsSome(ParseInt(Val(tags.levels)))
  THEN Val(ParseInt(Val(tags.levels))) * 35
  ELSE IF Get(tags.building, "yes") \in DOMAIN type_heights
  THEN HeightDen * type_heights[Get(tags.building, "yes")]
  ELSE DEFAULT_HEIGHT

\* get_building_type(tags, name)
get_building_type(tags, name) ==
  LET amenity == Get(tags.amenity, "")
      building == Get(tags.building, "yes")
      info == Landmark(name)
  IN  IF IsSome(info) THEN Val(info).type
      ELSE IF amenity \in {"university", "college", "school"} THEN "university"
      ELSE IF amenity \in {"library"} THEN "library"
      ELSE IF amenity \in {"hospital", "clinic"} THEN "hospital"
      ELSE IF amenity \in {"theatre", "cinema", "arts_centre"} THEN "cultural"
      ELSE IF building \in {"university", "college", "school"} THEN "university"
      ELSE IF building \in {"dormitory", "residential", "apartments"} THEN "residential"
      ELSE IF building \in {"stadium"} THEN "stadium"
      ELSE IF building \in {"church", "chapel"} THEN "religious"
      ELSE IF building \in {"commercial", "retail", "office"} THEN "commercial"
      ELSE IF building \in {"industrial", "warehouse"} THEN "industrial"
      ELSE "default"

\* The height process_buildings gives a stadium of the landuse file: 40, the
\* height of the first landmark in the name, then 45 for "ohio stadium" and
\* 30 for "st. john" or "saint john" in the name.
stadium_height(name) ==
  IF ~IsSome(name) \/ Val(name) = <<>> THEN HeightDen * 40
  ELSE LET lowered == ToLower(Val(name))
           info == Landmark(name)
       IN  IF Contains(lowered, <<"o", "h", "i", "o", " ", "s", "t", "a", "d", "i", "u", "m">>)
           THEN HeightDen * 45
           ELSE IF \/ Contains(lowered, <<"s", "t", ".", " ", "j", "o", "h", "n">>)
                   \/ Contains(lowered, <<"s", "a", "i", "n", "t", " ", "j", "o", "h", "n">>)
           THEN HeightDen * 30
           ELSE IF IsSome(info) THEN HeightDen * Val(info).height
           ELSE HeightDen * 40

\* Mutant of way_to_polygon: a missing node is left out of the polygon.
way_to_polygon_skip_missing(way, nodes) ==
  LET found == SelectSeq(Get(way.nodes, <<>>), LAMBDA id : id \in DOMAIN nodes)
      coords == [i \in 1..Len(found) |-> nodes[found[i]]]
  IN  IF Len(coords) < 3 THEN None ELSE Some(coords)

\* way_to_polygon(way, nodes): None, or the coordinates of the way's nodes.
\* way.nodes is None when the way has no "nodes" key.
way_to_polygon(way, nodes) ==
  LET ids == Get(way.nodes, <<>>)
  IN  IF \E i \in 1..Len(ids) : ids[i] \notin DOMAIN nodes THEN None
      ELSE IF Len(ids) < 3 THEN None
      ELSE Some([i \in 1..Len(ids) |-> nodes[ids[i]]])

\* The feature dict process_buildings appends.
Feature(way, coords, name, height, building_type, tags) ==
  [type |-> "Feature",
   coordinates |-> coords,
   id |-> way.id,
   name |-> name,
   height |-> height,
   building_type |-> building_type,
   osm_tags |-> tags]

\* tags = way.get("tags", {}): the tags of a way without the key are empty.
NoTags ==
  [building |-> None, height |-> None, levels |-> None, name |-> None, amenity |-> None,
   leisure |-> None]
Tags(way) == Get(way.tags, NoTags)

\* ------------------------------------------------------------------- state

VARIABLES
  pc,              \* where main() is: "google", "buildings", "replaced", "scatter",
                   \* "grid", "camera", "manifest", "done", "error" after an
                   \* uncaught exception, or "off" when it is not run
  buildings,       \* config["buildings"]
  scene_data,      \* config["sceneData"]: centerLon, centerLat, scale, bounds
  world_tile_size, \* config.get("worldTileSize", 15)
  tile_size,       \* config.get("tileSize", 512)
  add_trees,       \* illustrated and "--no-trees" not in args
  tree_count,      \* the --trees argument (80 when absent)
  seed,            \* the state of the random generator when main() starts
  google_tiles_config,  \* config.get("googleTilesConfig", None)
  model_files,     \* the paths of the model files that exist
  import_outcome,  \* what Blender does when a model file is imported
  google_tiles_objects, \* main's google_tiles_objects
  use_osm_buildings,    \* main's use_osm_buildings
  bi,              \* index of the next footprint of the building loop
  objects,         \* the "Building" objects linked into the scene, in order
  building_count,  \* main's building_count
  results,         \* what create_building returned, one entry per call
  building_polys,  \* scatter_trees: the obstacle polygons
  placed,          \* scatter_trees: placed
  attempts,        \* scatter_trees: attempts
  trees,           \* the positions create_tree was called with, in order
  tree_params,     \* the style, scale and tree_scale of each tree, in order
  scale,           \* scatter_trees: the local variable scale
  rng,             \* the state of the random generator
  placed_msg,      \* what "Placed {placed} trees ({attempts} attempts)" printed
  tile_data,       \* the result of calculate_tile_grid
  camera,          \* the full-scene camera and its target
  manifest,        \* the manifest written to manifest.json
  error,           \* the uncaught exception, "" when none
  raw_buildings,   \* parse_buildings: raw/osm_buildings.json as parse_osm_json
                   \* reads it, None when the file does not exist
  raw_landuse,     \* parse_buildings: raw/osm_landuse.json, likewise
  ppc,             \* where process_buildings is: "off", "start", "buildings",
                   \* "landuse", "done"
  wi,              \* index of the next way of the loop process_buildings is in
  features,        \* process_buildings: features
  dpc,             \* where download_data.main is: "off", "bbox", "buildings",
                   \* "roads", "landuse", "report", "done"
  responses,       \* what the Overpass API answers to each of the queries
  called,          \* the downloads called so far, in order
  returned,        \* what each of them returned, in order
  success,         \* main's success
  raw_files,       \* the files written into the raw directory
  report,          \* the last line main printed: "", "complete" or "failed"
  fpc,             \* where fetch_google_tiles.main is: "off", "args", "apiKey",
                   \* "outputDir", "addon", "clear", "configure", "import",
                   \* "save", "export", "metadata", "exit" after sys.exit,
                   \* "done" at the end of main, "error" after an exception
  fetch_config,    \* {**DEFAULT_CONFIG, **json.load(f)}
  blender,         \* the arguments and what Blender and Blosm will do
  steps,           \* the steps main has taken, in order
  exit_code        \* the argument of sys.exit, None when it was not called

optvars == <<world_tile_size, tile_size, add_trees, tree_count, seed>>
cfgvars == <<buildings, scene_data, optvars>>
bldvars == <<bi, objects, building_count, results>>
scvars == <<building_polys, placed, attempts, trees, placed_msg, tree_params, scale, rng>>
outvars == <<tile_data, camera, manifest>>
gtvars == <<google_tiles_config, model_files, import_outcome, google_tiles_objects,
            use_osm_buildings>>
rendervars == <<pc, cfgvars, bldvars, scvars, outvars, error, gtvars>>
parsevars == <<raw_buildings, raw_landuse, ppc, wi, features>>
dlvars == <<dpc, responses, called, returned, success, raw_files, report>>
fetchvars == <<fpc, fetch_config, blender, steps, exit_code>>
scriptvars == <<parsevars, dlvars, fetchvars>>
vars == <<rendervars, scriptvars>>

\* process_buildings is not running.
ParseIdle ==
  /\ raw_buildings = None
  /\ raw_landuse = None
  /\ ppc = "off"
  /\ wi = 1
  /\ features = <<>>

\* download_data.py is not running.
DownloadIdle ==
  /\ dpc = "off"
  /\ responses = <<>>
  /\ called = <<>>
  /\ returned = <<>>
  /\ success = TRUE
  /\ raw_files = {}
  /\ report = ""

\* fetch_google_tiles.py is not running.
FetchIdle ==
  /\ fpc = "off"
  /\ fetch_config = <<>>
  /\ blender = <<>>
  /\ steps = <<>>
  /\ exit_code = None

\* None of the scripts is running.
ScriptsIdle == ParseIdle /\ DownloadIdle /\ FetchIdle

\* What process_buildings, download_data.main and fetch_google_tiles.main
\* leave alone.
besideparse == <<rendervars, dlvars, fetchvars>>
besidedownload == <<rendervars, parsevars, fetchvars>>
besidefetch == <<rendervars, parsevars, dlvars>>

\* ------------------------------------------------------------------ inputs

\* A footprint whose coordinates are the offsets offs from the centre c.
Footprint(c, offs, height, type, id) ==
  [coords |-> [i \in 1..Len(offs) |-> <<c[1] + offs[i][1], c[2] + offs[i][2]>>],
   height |-> height, type |-> type, id |-> id]

\* A square of side 2 round the centre.
FpSquare(c) ==
  Footprint(c, << <<-1, -1>>, <<1, -1>>, <<1, 1>>, <<-1, 1>> >>, 10, "university", 1)
\* A closed ring: a triangle whose last coordinate repeats the first.
FpClosed(c) ==
  Footprint(c, << <<-4, -1>>, <<-3, -1>>, <<-3, 1>>, <<-4, -1>> >>, 5, "library", 2)
\* Three coincident coordinates.
FpPoint(c) ==
  Footprint(c, << <<1, -1>>, <<1, -1>>, <<1, -1>> >>, 10, "residential", 3)
\* Two coordinates: too few for a polygon.
FpTwo(c) ==
  Footprint(c, << <<2, 2>>, <<3, 3>> >>, 10, "default", 4)
\* A square that covers the whole sampled region.
FpBig(c) ==
  Footprint(c, << <<-9, -9>>, <<9, -9>>, <<9, 9>>, <<-9, 9>> >>, 20, "commercial", 5)

\* A triangle with a vertex at the centre and a negative height.
FpSunk(c) ==
  Footprint(c, << <<0, 0>>, <<2, 0>>, <<0, 2>> >>, -5, "default", 6)
\* No coordinates at all.
FpNone(c) ==
  Footprint(c, << >>, 10, "default", 7)
\* A square of height 0.
FpFlat(c) ==
  Footprint(c, << <<5, 5>>, <<6, 5>>, <<6, 6>>, <<5, 6>> >>, 0, "commercial", 8)
\* A closed ring of two distinct points: the second coordinate is repeated.
FpRepeat(c) ==
  Footprint(c, << <<-6, -6>>, <<-5, -6>>, <<-5, -6>>, <<-6, -6>> >>, 10, "residential", 9)

BuildingLists(c) ==
  { <<>>, <<FpSquare(c)>>, <<FpTwo(c), FpClosed(c)>>, <<FpPoint(c)>>, <<FpBig(c)>>,
    <<FpSunk(c), FpNone(c), FpFlat(c), FpRepeat(c)>> }

Centers == { <<0, 0>>, <<3, 60 * DegDen>> }
Scales == {-1, 0, 1, 2}

Bounds(minX, maxX, minZ, maxZ) ==
  [minX |-> minX, maxX |-> maxX, minZ |-> minZ, maxZ |-> maxZ]

\* Ground bounds of the scatter scenarios: a 16 x 16 square, and a strip
\* narrower than twice the edge margin.
ScatterBounds == { Bounds(W(-8), W(8), W(-8), W(8)), Bounds(W(-2), W(2), W(-8), W(8)) }

\* The content bounds of the spec's example: {minX:0, maxX:100, minZ:0, maxZ:40}.
ExampleBounds == Bounds(W(0), W(100), W(0), W(40))

Coords == (-MaxCoord)..MaxCoord
GridBounds ==
  { Bounds(a, b, c, d) : a \in Coords, b \in Coords, c \in Coords, d \in Coords }
TileSizes == { W(k) : k \in (-1)..MaxTile }

\* The states random.seed() or the start of the process leaves the generator
\* in.  A run that never calls scatter_trees never reads the generator.
Seeds == 0..(RngMod - 1)

\* Scenarios that vary the footprints, the projection and the tree count.
InitScatter ==
  /\ \E c \in Centers, s \in Scales, gb \in ScatterBounds :
       /\ buildings \in BuildingLists(c)
       /\ scene_data = [centerLon |-> c[1], centerLat |-> c[2], scale |-> s, bounds |-> gb]
  /\ world_tile_size = W(WORLD_TILE_SIZE)
  /\ add_trees \in BOOLEAN
  /\ tree_count \in (-1)..MaxCount
  /\ seed \in (IF add_trees /\ tree_count > 0 THEN Seeds ELSE {0})

\* Scenarios that vary the content bounds and the world tile size.
InitGrid ==
  /\ buildings = <<FpSquare(<<0, 0>>)>>
  /\ \/ /\ scene_data \in { [centerLon |-> 0, centerLat |-> 0, scale |-> 1, bounds |-> gb] :
                              gb \in GridBounds }
        /\ world_tile_size \in TileSizes
     \/ /\ scene_data = [centerLon |-> 0, centerLat |-> 0, scale |-> 1, bounds |-> ExampleBounds]
        /\ world_tile_size = W(WORLD_TILE_SIZE)
  /\ add_trees = FALSE
  /\ tree_count = 0
  /\ seed = 0

\* The state main() starts the building loop in when the config has no
\* googleTilesConfig.
InitRun ==
  /\ pc = "buildings"
  /\ google_tiles_config = None
  /\ model_files = {}
  /\ import_outcome = [kind |-> "none", meshes |-> 0]
  /\ google_tiles_objects = <<>>
  /\ use_osm_buildings = TRUE
  /\ tile_size = TILE_SIZE
  /\ bi = 1
  /\ objects = <<>>
  /\ building_count = 0
  /\ results = <<>>
  /\ building_polys = <<>>
  /\ placed = 0
  /\ attempts = 0
  /\ trees = <<>>
  /\ tree_params = <<>>
  /\ scale = None
  /\ rng = seed
  /\ placed_msg = None
  /\ tile_data = None
  /\ camera = None
  /\ manifest = None
  /\ error = ""
  /\ ScriptsIdle

Init == (InitScatter \/ InitGrid) /\ InitRun

\* The model paths of the Google Tiles scenarios: the empty string, a file of
\* each supported format, and a file of another format.
ModelPaths ==
  { Path("", ""), Path("tiles", ".glb"), Path("tiles", ".GLTF"), Path("tiles", ".obj"),
    Path("tiles", ".fbx"), Path("tiles", ".stl") }

\* The googleTilesConfig values: absent, and the dicts with or without
\* modelPath, replaceBuildings and further keys (the empty dict included).
GoogleTilesConfigs ==
  { None } \cup
  { Some([modelPath |-> m, replaceBuildings |-> r, other |-> o]) :
      m \in { None } \cup { Some(q) : q \in ModelPaths },
      r \in { None, Some(FALSE), Some(TRUE) },
      o \in BOOLEAN }

\* What Blender can do with a model file.
ImportOutcomes ==
  { [kind |-> "raise", meshes |-> 0] }
    \cup { [kind |-> "ok", meshes |-> n] : n \in 0..MaxMeshes }
    \cup { [kind |-> "late", meshes |-> n] : n \in 1..MaxMeshes }

\* The state main() is in before it looks at googleTilesConfig: the scenarios
\* that vary the Google Tiles config, the model files and the import.
TilesInit ==
  /\ pc = "google"
  /\ buildings \in { <<>>, <<FpTwo(<<0, 0>>), FpClosed(<<0, 0>>)>> }
  /\ scene_data = [centerLon |-> 0, centerLat |-> 0, scale |-> 1,
                   bounds |-> Bounds(W(-8), W(8), W(-8), W(8))]
  /\ world_tile_size = W(WORLD_TILE_SIZE)
  /\ tile_size = TILE_SIZE
  /\ add_trees = FALSE
  /\ tree_count = 0
  /\ seed = 0
  /\ google_tiles_config \in GoogleTilesConfigs
  /\ model_files \in { {}, ModelPaths }
  /\ import_outcome \in ImportOutcomes
  /\ google_tiles_objects = <<>>
  /\ use_osm_buildings = TRUE
  /\ bi = 1
  /\ objects = <<>>
  /\ building_count = 0
  /\ results = <<>>
  /\ building_polys = <<>>
  /\ placed = 0
  /\ attempts = 0
  /\ trees = <<>>
  /\ tree_params = <<>>
  /\ scale = None
  /\ rng = seed
  /\ placed_msg = None
  /\ tile_data = None
  /\ camera = None
  /\ manifest = None
  /\ error = ""
  /\ ScriptsIdle

\* The grid scenarios alone.
GridInit == InitGrid /\ InitRun

\* render_tiles.py is not running.
RenderIdle ==
  /\ pc = "off"
  /\ buildings = <<>>
  /\ scene_data = [centerLon |-> 0, centerLat |-> 0, scale |-> 1,
                   bounds |-> Bounds(W(-8), W(8), W(-8), W(8))]
  /\ world_tile_size = W(WORLD_TILE_SIZE)
  /\ tile_size = TILE_SIZE
  /\ add_trees = FALSE
  /\ tree_count = 0
  /\ seed = 0
  /\ google_tiles_config = None
  /\ model_files = {}
  /\ import_outcome = [kind |-> "none", meshes |-> 0]
  /\ google_tiles_objects = <<>>
  /\ use_osm_buildings = TRUE
  /\ bi = 1
  /\ objects = <<>>
  /\ building_count = 0
  /\ results = <<>>
  /\ building_polys = <<>>
  /\ placed = 0
  /\ attempts = 0
  /\ trees = <<>>
  /\ tree_params = <<>>
  /\ scale = None
  /\ rng = 0
  /\ placed_msg = None
  /\ tile_data = None
  /\ camera = None
  /\ manifest = None
  /\ error = ""

\* ----------------------------------------------------------------- actions

\* Mutant of UseOsmBuildings: replaceBuildings alone decides.
UseOsmUnlessAsked(objs, config) == ~ReplaceBuildings(config)

\* use_osm_buildings after if google_tiles_objects and
\* google_tiles_config.get("replaceBuildings", False): use_osm_buildings = False
UseOsmBuildings(objs, config) == ~(objs # <<>> /\ ReplaceBuildings(config))

\* main: google_tiles_objects = [], use_osm_buildings = True, and with a
\* googleTilesConfig the import and the decision; building_count = 0.
GoogleTilesStep ==
  /\ pc = "google"
  /\ IF ConfigGiven(google_tiles_config)
     THEN LET objs == import_google_tiles(Val(google_tiles_config), model_files,
                                          import_outcome)
          IN  /\ google_tiles_objects' = objs
              /\ use_osm_buildings' = UseOsmBuildings(objs, Val(google_tiles_config))
     ELSE /\ google_tiles_objects' = <<>>
          /\ use_osm_buildings' = TRUE
  /\ building_count' = 0
  /\ pc' = "buildings"
  /\ UNCHANGED <<cfgvars, bi, objects, results, scvars, outvars, error, google_tiles_config,
                 model_files, import_outcome, scriptvars>>

\* main, the else branch of if use_osm_buildings:
\* building_count = len(google_tiles_objects)
CountGoogleTiles ==
  /\ pc = "buildings"
  /\ ~use_osm_buildings
  /\ building_count' = Len(google_tiles_objects)
  /\ pc' = "replaced"
  /\ UNCHANGED <<cfgvars, bi, objects, results, scvars, outvars, error, gtvars, scriptvars>>

\* Mutant of CountMesh: every call is counted.
CountEveryCall(obj, count) == count + 1

\* if obj: building_count += 1
CountMesh(obj, count) == IF IsSome(obj) THEN count + 1 ELSE count

\* main, the building loop: one create_building call per footprint.  The call
\* gets the footprint's own coords list and the scene_data dict.
CreateBuildingStep ==
  /\ pc = "buildings"
  /\ use_osm_buildings
  /\ bi <= Len(buildings)
  /\ \E face_ok \in BOOLEAN :
       LET obj == create_building(buildings[bi], scene_data, face_ok)
       IN  /\ objects' = objects \o obj
           /\ results' = Append(results, obj)
           /\ building_count' = CountMesh(obj, building_count)
  /\ buildings' = [buildings EXCEPT ![bi].coords = CallerCoords(@, scene_data)]
  /\ bi' = bi + 1
  /\ UNCHANGED <<pc, scene_data, optvars, scvars, outvars, error, gtvars, scriptvars>>

\* main is past the buildings: the loop over the footprints is over, or the
\* else branch has counted the Google Tiles objects.
BuildingsDone ==
  \/ pc = "buildings" /\ use_osm_buildings /\ bi > Len(buildings)
  \/ pc = "replaced"

\* main: if add_trees and tree_count > 0: scatter_trees(...), up to the loop.
ScatterCall ==
  /\ BuildingsDone
  /\ add_trees /\ tree_count > 0
  /\ building_polys' = BuildPolys(buildings, scene_data)
  /\ scale' = Some(scene_data.scale * ScaleDen)
  /\ placed' = 0
  /\ attempts' = 0
  /\ pc' = "scatter"
  /\ UNCHANGED <<cfgvars, bldvars, trees, tree_params, rng, placed_msg, outvars, error,
                 gtvars, scriptvars>>

\* main: trees disabled or tree_count <= 0, scatter_trees is not called.
ScatterSkip ==
  /\ BuildingsDone
  /\ ~(add_trees /\ tree_count > 0)
  /\ pc' = "grid"
  /\ UNCHANGED <<cfgvars, bldvars, scvars, outvars, error, gtvars, scriptvars>>

max_attempts == tree_count * MaxAttemptsMultiplier

\* Mutants of LoopCondition: no attempt budget, and no placement target.
LoopConditionNoBudget == placed < tree_count
LoopConditionNoTarget == attempts < max_attempts

\* while placed < count and attempts < max_attempts
LoopCondition == placed < tree_count /\ attempts < max_attempts

\* Mutant of Obstacles: every tree placed becomes an obstacle, a square of
\* side 2.0 round its position.
ObstaclesWithTrees ==
  building_polys \o
    [t \in 1..Len(trees) |->
       << <<trees[t][1] - W(1), trees[t][2] - W(1)>>, <<trees[t][1] + W(1), trees[t][2] - W(1)>>,
          <<trees[t][1] + W(1), trees[t][2] + W(1)>>, <<trees[t][1] - W(1), trees[t][2] + W(1)>> >>]

\* The polygons is_valid_tree_location tests: building_polys, the variable of
\* scatter_trees the nested function reads.
Obstacles == building_polys

\* One iteration of the scatter loop.  kx and kz are the two random.random()
\* draws of the position; ks and kc are the draws of the style and the scale
\* and kt the draw of create_tree's tree_scale, made when the location is
\* accepted.  create_tree then draws the canopy, which the model does not
\* record.
ScatterAttempt ==
  /\ pc = "scatter"
  /\ LoopCondition
  /\ attempts' = attempts + 1
  /\ \E kx \in 0..(RandDen - 1) : Draw(rng, kx) /\
     \E kz \in 0..(RandDen - 1) : Draw(Advance(rng, 1), kz) /\
       LET min_x == scene_data.bounds.minX + EdgeMargin
           max_x == scene_data.bounds.maxX - EdgeMargin
           min_z == scene_data.bounds.minZ + EdgeMargin
           max_z == scene_data.bounds.maxZ - EdgeMargin
           x == Sample(min_x, max_x, kx)
           z == Sample(min_z, max_z, kz)
       IN  IF is_valid_tree_location(x, z, Obstacles, TreeMargin)
           THEN \E ks \in 0..(RandDen - 1) : Draw(Advance(rng, 2), ks) /\
                \E kc \in 0..(RandDen - 1) : Draw(Advance(rng, 3), kc) /\
                \E kt \in 0..(RandDen - 1) : Draw(Advance(rng, 4), kt) /\
                  /\ scale' = Some(TreeScale(kc))
                  /\ trees' = Append(trees, <<x, z>>)
                  /\ tree_params' = Append(tree_params,
                                           [style |-> TreeStyle(ks),
                                            scale |-> TreeScale(kc),
                                            tree_scale |-> tree_scale(TreeScale(kc), kt)])
                  /\ rng' = create_tree_canopy(Advance(rng, 5), TreeStyle(ks))
                  /\ placed' = placed + 1
           ELSE /\ rng' = Advance(rng, 2)
                /\ UNCHANGED <<trees, tree_params, scale, placed>>
  /\ UNCHANGED <<pc, cfgvars, bldvars, building_polys, placed_msg, outvars, error, gtvars, scriptvars>>

\* The loop ends; scatter_trees prints the result and returns to main.
ScatterReturn ==
  /\ pc = "scatter"
  /\ ~LoopCondition
  /\ placed_msg' = Some([placed |-> placed, attempts |-> attempts])
  /\ pc' = "grid"
  /\ UNCHANGED <<cfgvars, bldvars, building_polys, placed, attempts, trees, tree_params,
                 scale, rng, outvars, error, gtvars, scriptvars>>

\* main: tile_data = calculate_tile_grid(scene_data["bounds"], world_tile_size)
CalculateTileGrid ==
  /\ pc = "grid"
  /\ \/ /\ world_tile_size # 0
        /\ tile_data' = Some(calculate_tile_grid(scene_data.bounds, world_tile_size))
        /\ pc' = "camera"
        /\ UNCHANGED error
     \/ /\ world_tile_size = 0
        /\ error' = "ZeroDivisionError"
        /\ pc' = "error"
        /\ UNCHANGED tile_data
  /\ UNCHANGED <<cfgvars, bldvars, scvars, camera, manifest, gtvars, scriptvars>>

\* Mutant of Camera: the camera framed on the content bounds, not on the grid.
CameraOnContent(td) ==
  [ortho_scale |-> scene_data.bounds.maxZ - scene_data.bounds.minZ,
   target2 |-> <<scene_data.bounds.minX + scene_data.bounds.maxX,
                 scene_data.bounds.minZ + scene_data.bounds.maxZ>>]

\* main, the full-scene camera: cam_data.ortho_scale = iso_scale = rows *
\* world_tile_size, and target.location = (center_x, 0, center_z), the centre
\* of grid_bounds; target2 holds twice its x and z.
Camera(td) ==
  [ortho_scale |-> td.rows * world_tile_size,
   target2 |-> <<td.gridBounds.minX + td.gridBounds.maxX,
                 td.gridBounds.minZ + td.gridBounds.maxZ>>]

\* main: the full-scene camera and its target are set up.
SetupCamera ==
  /\ pc = "camera"
  /\ camera' = Some(Camera(Val(tile_data)))
  /\ pc' = "manifest"
  /\ UNCHANGED <<cfgvars, bldvars, scvars, tile_data, manifest, error, gtvars, scriptvars>>

\* Mutant of Manifest: the height computed from the columns.
ManifestSquare(td, sd) ==
  [tileSize |-> tile_size,
   worldTileSize |-> world_tile_size,
   cols |-> td.cols,
   rows |-> td.rows,
   bounds |-> sd.bounds,
   fullImage |-> "full-render.png",
   width |-> td.cols * tile_size,
   height |-> td.cols * tile_size]

\* The manifest dict of main: cols, rows, full_width and full_height come
\* from tile_data, bounds is scene_data["bounds"].
Manifest(td, sd) ==
  [tileSize |-> tile_size,
   worldTileSize |-> world_tile_size,
   cols |-> td.cols,
   rows |-> td.rows,
   bounds |-> sd.bounds,
   fullImage |-> "full-render.png",
   width |-> td.cols * tile_size,
   height |-> td.rows * tile_size]

\* main: the manifest written after the render.
WriteManifest ==
  /\ pc = "manifest"
  /\ manifest' = Some(Manifest(Val(tile_data), scene_data))
  /\ pc' = "done"
  /\ UNCHANGED <<cfgvars, bldvars, scvars, tile_data, camera, error, gtvars, scriptvars>>

Next ==
  \/ CreateBuildingStep
  \/ ScatterCall
  \/ ScatterSkip
  \/ ScatterAttempt
  \/ ScatterReturn
  \/ CalculateTileGrid
  \/ SetupCamera
  \/ WriteManifest

Spec == Init /\ [][Next]_vars

\* The runs of unit scale centred on the equator.
FairInit == Init /\ scene_data.scale = 1 /\ scene_data.centerLat = 0

\* The pipeline is single-threaded and runs without suspension: a step that
\* can be taken is taken.
FairSpec == FairInit /\ [][Next]_vars /\ WF_vars(Next)

\* calculate_tile_grid over the grid scenarios: the runs of main() that
\* scatter no trees, from every content bounds and world tile size.
NextGrid ==
  \/ CreateBuildingStep
  \/ ScatterSkip
  \/ CalculateTileGrid
  \/ SetupCamera
  \/ WriteManifest

SpecGrid == GridInit /\ [][NextGrid]_vars

\* main from the Google Tiles import to the end of the buildings, in the
\* runs that scatter no trees.
NextTiles ==
  \/ GoogleTilesStep
  \/ CreateBuildingStep
  \/ CountGoogleTiles
  \/ ScatterSkip

SpecTiles == TilesInit /\ [][NextTiles]_vars

\* ------------------------------------------------- parse_buildings: inputs

\* The tags dict of a way: each key is None when absent, else Some(value).
\* height, building:levels (levels) and name are strings of characters.
TagsOf(building, height, levels, name, amenity, leisure) ==
  [building |-> building, height |-> height, levels |-> levels, name |-> name,
   amenity |-> amenity, leisure |-> leisure]

\* An element of type "way": nodes and tags are None when the key is absent.
Way(id, nodes, tags) == [id |-> id, nodes |-> nodes, tags |-> tags]

\* The node index parse_osm_json builds: node id -> (lon, lat).
NodeIndex ==
  [i \in 1..5 |-> << <<0, 0>>, <<4, 0>>, <<4, 3>>, <<0, 3>>, <<2, 5>> >>[i]]

\* A node id no element defines.
MissingNode == 9

HeightTags ==
  { None, Some(<<"1", "2", ".", "5">>), Some(<<"1", "2", " ", "m">>), Some(<<"3", "'">>), Some(<<"0">>), Some(<<"-", "5">>),
    Some(<<"t", "a", "l", "l">>), Some(<<"4", "0", " ", "f", "t">>), Some(<<>>) }
LevelsTags ==
  { None, Some(<<"4">>), Some(<<" ", "2", " ">>), Some(<<"0">>), Some(<<"-", "1">>), Some(<<"2", ".", "5">>),
    Some(<<"t", "w", "o">>) }
NameTags ==
  { None, Some(<<>>), Some(<<"S", "m", "i", "t", "h", " ", "L", "a", "b">>), Some(<<"t", "h", "e", " ", "O", "H", "I", "O", " ", "S", "T", "A", "D", "I", "U", "M", " ", "a", "n", "n", "e", "x">>),
    Some(<<"O", "h", "i", "o", " ", "U", "n", "i", "o", "n", " ", "a", "t", " ", "O", "h", "i", "o", " ", "S", "t", "a", "d", "i", "u", "m">>), Some(<<"O", "h", "i", "o", "S", "t", "a", "d", "i", "u", "m">>) }
BuildingTags == { "yes", "garage", "dormitory", "shed" }

\* The buildings files of one building whose tags vary.
TagFiles ==
  { [nodes |-> NodeIndex,
     ways |-> << Way(100, Some(<<1, 2, 3, 4, 1>>),
                     Some(TagsOf(Some(b), h, l, n, None, None))) >>] :
      b \in BuildingTags, h \in HeightTags, l \in LevelsTags, n \in NameTags }

JustBuilding == Some(TagsOf(Some("yes"), None, None, None, None, None))

\* A buildings file whose ways vary in geometry: a closed ring, a missing
\* node at the end and in the middle, two nodes, no building tag, no tags, no
\* nodes, the same node three times, an amenity, and no node at all.
GeometryFile ==
  [nodes |-> NodeIndex,
   ways |-> << Way(101, Some(<<1, 2, 3, 1>>), JustBuilding),
               Way(102, Some(<<1, 2, MissingNode>>), JustBuilding),
               Way(103, Some(<<1, 2>>), JustBuilding),
               Way(104, Some(<<1, 2, 3>>),
                   Some(TagsOf(None, Some(<<"9">>), None, None, None, Some("park")))),
               Way(105, Some(<<2, 3, 4>>), None),
               Way(106, None, JustBuilding),
               Way(107, Some(<<2, 2, 2>>), JustBuilding),
               Way(108, Some(<<1, 2, MissingNode, 3, 4>>), JustBuilding),
               Way(109, Some(<<5, 4, 3, 2>>),
                   Some(TagsOf(Some("yes"), None, None, None, Some("library"), None))),
               Way(110, Some(<<>>), JustBuilding) >>]

EmptyFile == [nodes |-> NodeIndex, ways |-> <<>>]

Stadium(name) == Some(TagsOf(None, None, None, name, None, Some("stadium")))

\* A landuse file: stadiums with and without a landmark name, a stadium that
\* is a building too, a park, and stadiums without their nodes.
LanduseFile ==
  [nodes |-> NodeIndex,
   ways |-> << Way(201, Some(<<1, 2, 3, 4>>), Stadium(Some(<<"O", "h", "i", "o", " ", "S", "t", "a", "d", "i", "u", "m">>))),
               Way(202, Some(<<1, 2, 5>>),
                   Some(TagsOf(None, None, None, None, None, Some("park")))),
               Way(203, Some(<<1, MissingNode, 2, 3>>), Stadium(None)),
               Way(204, Some(<<3, 4, 5>>), Stadium(None)),
               Way(205, Some(<<1, 2, 3>>), Stadium(Some(<<"S", "t", ".", " ", "J", "o", "h", "n", " ", "A", "r", "e", "n", "a">>))),
               Way(206, Some(<<4, 5>>), Stadium(Some(<<"W", "e", "x", "n", "e", "r", " ", "C", "e", "n", "t", "e", "r">>))),
               Way(207, Some(<<2, 3, 4, 5>>),
                   Some(TagsOf(Some("stadium"), Some(<<"0">>), None, Some(<<"W", "e", "x", "n", "e", "r", " ", "C", "e", "n", "t", "e", "r">>),
                               None, Some("stadium")))),
               Way(208, Some(<<1, 2, 3>>), None) >>]

\* process_buildings is called: the raw files vary in the tags of one
\* building, or in the geometry of the ways and the landuse file.
ParseScenarios ==
  \/ /\ raw_buildings \in { Some(f) : f \in TagFiles }
     /\ raw_landuse = None
  \/ /\ raw_buildings \in { None, Some(EmptyFile), Some(GeometryFile) }
     /\ raw_landuse \in { None, Some(EmptyFile), Some(LanduseFile) }

\* ------------------------------------------------ parse_buildings: actions

\* process_buildings up to the first loop: return [] when osm_buildings.json
\* does not exist, else features = [].
ProcessStart ==
  /\ ppc = "start"
  /\ features' = <<>>
  /\ wi' = 1
  /\ ppc' = IF raw_buildings = None THEN "done" ELSE "buildings"
  /\ UNCHANGED <<raw_buildings, raw_landuse, besideparse>>

\* What one pass of the loop over data["ways"] appends to features.
BuildingFeatures(way, nodes) ==
  LET tags == Tags(way)
      coords == way_to_polygon(way, nodes)
      name == tags.name
  IN  IF ~IsSome(tags.building) THEN <<>>
      ELSE IF ~IsSome(coords) THEN <<>>
      ELSE << Feature(way, Val(coords), name, estimate_height(tags, name),
                      get_building_type(tags, name), tags) >>

\* One pass of for way in data["ways"].
ProcessWay ==
  /\ ppc = "buildings"
  /\ wi <= Len(Val(raw_buildings).ways)
  /\ features' = features \o BuildingFeatures(Val(raw_buildings).ways[wi],
                                              Val(raw_buildings).nodes)
  /\ wi' = wi + 1
  /\ UNCHANGED <<ppc, raw_buildings, raw_landuse, besideparse>>

\* After the loop: the landuse file is read when it exists, else the
\* features are returned.
ProcessLanduseStart ==
  /\ ppc = "buildings"
  /\ wi > Len(Val(raw_buildings).ways)
  /\ ppc' = IF raw_landuse = None THEN "done" ELSE "landuse"
  /\ wi' = 1
  /\ UNCHANGED <<features, raw_buildings, raw_landuse, besideparse>>

\* What one pass of the loop over landuse_data["ways"] appends to features.
StadiumFeatures(way, nodes) ==
  LET tags == Tags(way)
      coords == way_to_polygon(way, nodes)
  IN  IF Get(tags.leisure, "") # "stadium" THEN <<>>
      ELSE IF ~IsSome(coords) THEN <<>>
      ELSE << Feature(way, Val(coords), tags.name, stadium_height(tags.name), "stadium",
                      tags) >>

\* One pass of for way in landuse_data["ways"].
ProcessStadium ==
  /\ ppc = "landuse"
  /\ wi <= Len(Val(raw_landuse).ways)
  /\ features' = features \o StadiumFeatures(Val(raw_landuse).ways[wi],
                                             Val(raw_landuse).nodes)
  /\ wi' = wi + 1
  /\ UNCHANGED <<ppc, raw_buildings, raw_landuse, besideparse>>

\* return features
ProcessReturn ==
  /\ ppc = "landuse"
  /\ wi > Len(Val(raw_landuse).ways)
  /\ ppc' = "done"
  /\ UNCHANGED <<wi, features, raw_buildings, raw_landuse, besideparse>>

\* process_buildings is called while nothing else runs.
ParseInit ==
  /\ RenderIdle
  /\ DownloadIdle
  /\ FetchIdle
  /\ ParseScenarios
  /\ ppc = "start"
  /\ wi = 1
  /\ features = <<>>

\* process_buildings of parse_buildings.py, from its call to its return.
NextParse ==
  \/ ProcessStart
  \/ ProcessWay
  \/ ProcessLanduseStart
  \/ ProcessStadium
  \/ ProcessReturn

SpecParse == ParseInit /\ [][NextParse]_vars

\* -------------------------------------------------------------- download_data

\* The downloads of main, in the order of its statements, with the file each
\* writes.
Downloads == << "buildings", "roads", "landuse" >>
OutputFile(name) == "osm_" \o name \o ".json"

\* What the Overpass API can answer to a query: no answer (requests.post
\* raises ConnectionError or Timeout), an error status (raise_for_status
\* raises HTTPError), a body that is not JSON (response.json() raises
\* JSONDecodeError, a RequestException since requests 2.27), or the elements.
Answers == { "refused", "http_error", "bad_json", "ok" }

\* download_osm_buildings, download_osm_roads, download_osm_landuse: True
\* after the file is written, False when a RequestException is caught.
download(answer) == answer = "ok"

\* Mutant of Called: success and download(), the download is the right
\* operand and is skipped once success is False.
CalledWhileSuccess(flag) == flag

\* success = download() and success: the download is the left operand of
\* and, so it is called whatever success is.
Called(flag) == TRUE

\* download_data.main is called; the answers vary.
DownloadInit ==
  /\ RenderIdle
  /\ ParseIdle
  /\ FetchIdle
  /\ dpc = "bbox"
  /\ responses \in [{ Downloads[k] : k \in 1..Len(Downloads) } -> Answers]
  /\ called = <<>>
  /\ returned = <<>>
  /\ success = TRUE
  /\ raw_files \in { {}, { "bbox.json", OutputFile("roads") } }
  /\ report = ""

\* create_bbox_file(); success = True
CreateBboxFile ==
  /\ dpc = "bbox"
  /\ raw_files' = raw_files \cup { "bbox.json" }
  /\ success' = TRUE
  /\ dpc' = "buildings"
  /\ UNCHANGED <<responses, called, returned, report, besidedownload>>

\* success = download_osm_<name>() and success, then the statement next.
DownloadStatement(name, next) ==
  /\ dpc = name
  /\ IF Called(success)
     THEN /\ called' = Append(called, name)
          /\ returned' = Append(returned, download(responses[name]))
          /\ raw_files' = IF download(responses[name])
                          THEN raw_files \cup { OutputFile(name) } ELSE raw_files
          /\ success' = (download(responses[name]) /\ success)
     ELSE UNCHANGED <<called, returned, raw_files, success>>
  /\ dpc' = next
  /\ UNCHANGED <<responses, report, besidedownload>>

DownloadBuildings == DownloadStatement("buildings", "roads")
DownloadRoads == DownloadStatement("roads", "landuse")
DownloadLanduse == DownloadStatement("landuse", "report")

\* if success: print("Download complete! ...") else: print("Some downloads
\* failed. ...")
Report ==
  /\ dpc = "report"
  /\ report' = IF success THEN "complete" ELSE "failed"
  /\ dpc' = "done"
  /\ UNCHANGED <<responses, called, returned, success, raw_files, besidedownload>>

NextDownload ==
  \/ CreateBboxFile
  \/ DownloadBuildings
  \/ DownloadRoads
  \/ DownloadLanduse
  \/ Report

SpecDownload == DownloadInit /\ [][NextDownload]_vars

\* --------------------------------------------------------- fetch_google_tiles

\* not config.get(key) is False: the value is neither None (the default, or
\* a JSON null) nor the empty string.
Truthy(value) == IsSome(value) /\ Val(value) # ""

\* check_blosm_addon(): the addon is in the preferences, or it is not and
\* addon_enable does or does not raise.
check_blosm_addon(addon) == addon \in { "enabled", "can_enable" }

\* setup_blosm_settings(...): False when setting a property raises.
setup_blosm_settings(setup) == setup = "ok"

\* import_google_tiles(): True when bpy.ops.blosm.import_data or
\* bpy.ops.import_scene.blosm exists and does not raise.
fetch_import_google_tiles(op) == op \in { "import_data", "import_scene" }

\* The formats export_scene has a branch for.
ExportFormats == { "obj", "gltf", "fbx" }

\* Mutant of AfterImport: the export follows the import whatever it returned.
AfterImportExport(imported) == "export"

\* main after import_google_tiles(): the manual-import branch when it
\* returned False, else the statistics and the export.
AfterImport(imported) == IF imported THEN "export" ELSE "save"

\* The configs main loads: apiKey and outputDir absent, empty or given, and
\* the exportFormat.
FetchConfigs ==
  { [apiKey |-> k, outputDir |-> o, exportFormat |-> f] :
      k \in { None, Some(""), Some("key") },
      o \in { None, Some(""), Some("out") },
      f \in ExportFormats \cup { "stl" } }

\* The command line and what Blender and Blosm do in the run.
BlenderRuns ==
  { [args |-> a, addon |-> d, setup |-> s, op |-> i, meshes |-> n] :
      a \in BOOLEAN,
      d \in { "enabled", "can_enable", "missing" },
      s \in { "ok", "raises" },
      i \in { "import_data", "import_scene", "no_operator", "raises" },
      n \in 0..MaxMeshes }

\* fetch_google_tiles.main is called.
FetchInit ==
  /\ RenderIdle
  /\ ParseIdle
  /\ DownloadIdle
  /\ fpc = "args"
  /\ fetch_config \in FetchConfigs
  /\ blender \in BlenderRuns
  /\ steps = <<>>
  /\ exit_code = None

\* sys.exit(code)
Exit(code) ==
  /\ exit_code' = Some(code)
  /\ fpc' = "exit"

\* if len(args) < 1: sys.exit(1); the config is loaded over DEFAULT_CONFIG.
LoadConfig ==
  /\ fpc = "args"
  /\ IF blender.args THEN fpc' = "apiKey" /\ UNCHANGED exit_code ELSE Exit(1)
  /\ UNCHANGED <<fetch_config, blender, steps, besidefetch>>

\* if not config.get("apiKey"): sys.exit(1)
ValidateApiKey ==
  /\ fpc = "apiKey"
  /\ steps' = Append(steps, "apiKey")
  /\ IF Truthy(fetch_config.apiKey) THEN fpc' = "outputDir" /\ UNCHANGED exit_code
     ELSE Exit(1)
  /\ UNCHANGED <<fetch_config, blender, besidefetch>>

\* if not config.get("outputDir"): sys.exit(1)
ValidateOutputDir ==
  /\ fpc = "outputDir"
  /\ steps' = Append(steps, "outputDir")
  /\ IF Truthy(fetch_config.outputDir) THEN fpc' = "addon" /\ UNCHANGED exit_code
     ELSE Exit(1)
  /\ UNCHANGED <<fetch_config, blender, besidefetch>>

\* if not check_blosm_addon(): sys.exit(1)
CheckAddon ==
  /\ fpc = "addon"
  /\ steps' = Append(steps, "addon")
  /\ IF check_blosm_addon(blender.addon) THEN fpc' = "clear" /\ UNCHANGED exit_code
     ELSE Exit(1)
  /\ UNCHANGED <<fetch_config, blender, besidefetch>>

\* clear_scene()
ClearScene ==
  /\ fpc = "clear"
  /\ steps' = Append(steps, "clear")
  /\ fpc' = "configure"
  /\ UNCHANGED <<fetch_config, blender, exit_code, besidefetch>>

\* if not setup_blosm_settings(...): sys.exit(1)
Configure ==
  /\ fpc = "configure"
  /\ steps' = Append(steps, "configure")
  /\ IF setup_blosm_settings(blender.setup) THEN fpc' = "import" /\ UNCHANGED exit_code
     ELSE Exit(1)
  /\ UNCHANGED <<fetch_config, blender, besidefetch>>

\* if not import_google_tiles(): ...
Import ==
  /\ fpc = "import"
  /\ steps' = Append(steps, "import")
  /\ fpc' = AfterImport(fetch_import_google_tiles(blender.op))
  /\ UNCHANGED <<fetch_config, blender, exit_code, besidefetch>>

\* The manual-import branch: os.makedirs, bpy.ops.wm.save_as_mainfile,
\* sys.exit(0).
SaveBlend ==
  /\ fpc = "save"
  /\ steps' = Append(steps, "save")
  /\ Exit(0)
  /\ UNCHANGED <<fetch_config, blender, besidefetch>>

\* stats = get_scene_stats(); export_scene(outputDir, exportFormat): nothing
\* is exported when there is no mesh, and with meshes a format without a
\* branch leaves filepath unbound at return filepath (UnboundLocalError).
Export ==
  /\ fpc = "export"
  /\ steps' = Append(steps, "export")
  /\ fpc' = IF blender.meshes = 0 \/ fetch_config.exportFormat \in ExportFormats
            THEN "metadata" ELSE "error"
  /\ UNCHANGED <<fetch_config, blender, exit_code, besidefetch>>

\* write_metadata(outputDir, config, stats); print("DONE!")
WriteMetadata ==
  /\ fpc = "metadata"
  /\ steps' = Append(steps, "metadata")
  /\ fpc' = "done"
  /\ UNCHANGED <<fetch_config, blender, exit_code, besidefetch>>

NextFetch ==
  \/ LoadConfig
  \/ ValidateApiKey
  \/ ValidateOutputDir
  \/ CheckAddon
  \/ ClearScene
  \/ Configure
  \/ Import
  \/ SaveBlend
  \/ Export
  \/ WriteMetadata

SpecFetch == FetchInit /\ [][NextFetch]_vars

\* ------------------------------------------------------------------ claims

\* Squared distance of the points p and q.
Dist2(p, q) == (p[1] - q[1]) * (p[1] - q[1]) + (p[2] - q[2]) * (p[2] - q[2])

\* The distance of p to the segment from a to b is less than m: an end point
\* is nearer than m, or the foot of the perpendicular falls inside the segment
\* and the perpendicular (cross / |b - a|) is shorter than m.
NearSegment(p, a, b, m) ==
  LET num == (p[1] - a[1]) * (b[1] - a[1]) + (p[2] - a[2]) * (b[2] - a[2])
      cross == (p[1] - a[1]) * (b[2] - a[2]) - (p[2] - a[2]) * (b[1] - a[1])
  IN  \/ Dist2(p, a) < m * m
      \/ Dist2(p, b) < m * m
      \/ /\ 0 < num
         /\ num < Dist2(a, b)
         /\ cross * cross < m * m * Dist2(a, b)

\* The tree at p keeps clear of the polygon: outside it, and at least m from
\* each of its edges.
ClearOf(p, poly, m) ==
  /\ ~point_in_polygon(p[1], p[2], poly)
  /\ \A i \in 1..Len(poly) : ~NearSegment(p, poly[i], poly[(i % Len(poly)) + 1], m)

\* C1: every tree scatter_trees placed is outside every obstacle polygon of
\* building_polys and at least the margin 2.0 from each of its edges, whatever
\* the polygon (repeated or coincident vertices included).  Stated for scenes
\* of positive scale.
C1_TreesClearOfObstacles ==
  scene_data.scale > 0 =>
    \A t \in 1..Len(trees) : \A k \in 1..Len(building_polys) :
      ClearOf(trees[t], building_polys[k], TreeMargin)

\* The same, for the obstacle polygons that have an edge of non-zero length.
TreesClearOfProperObstacles ==
  \A t \in 1..Len(trees) : \A k \in 1..Len(building_polys) :
    (\E i \in 1..Len(building_polys[k]) : building_polys[k][i] # building_polys[k][1])
      => ClearOf(trees[t], building_polys[k], TreeMargin)

\* C2: the scatter loop always ends, and never makes more than count * 20
\* attempts: while it runs attempts <= count * 20, and a run that entered the
\* loop leaves it for the tile grid step.
C2_ScatterLoopTerminates ==
  /\ [](pc = "scatter" => attempts <= tree_count * MaxAttemptsMultiplier)
  /\ (pc = "scatter") ~> (pc = "grid")

\* C2 witness: the loop has ended on the attempt budget, count * 20 attempts
\* made and fewer than count trees placed.
C2_Witness ==
  /\ pc = "grid"
  /\ IsSome(placed_msg)
  /\ attempts = tree_count * MaxAttemptsMultiplier
  /\ placed < tree_count

\* C3: in the scatter loop placed <= count and placed <= attempts <= count * 20;
\* once the loop has ended, the printed count is the number of trees created,
\* a short result (placed < count) comes with attempts = count * 20, and the
\* run has gone on to the tile grid step: no exception but the one
\* calculate_tile_grid raises for a zero world tile size ends it.
C3_ScatterCounters ==
  /\ pc = "scatter" =>
       /\ placed <= tree_count
       /\ placed <= attempts
       /\ attempts <= tree_count * MaxAttemptsMultiplier
       /\ placed = Len(trees)
  /\ IsSome(placed_msg) =>
       /\ Val(placed_msg).placed = Len(trees)
       /\ Val(placed_msg).placed <= tree_count
       /\ Val(placed_msg).placed < tree_count =>
            Val(placed_msg).attempts = tree_count * MaxAttemptsMultiplier
       /\ pc \in {"grid", "camera", "manifest", "done", "error"}
       /\ pc = "error" => world_tile_size = 0

\* C3 witness: a short result, and the tile grid has been computed after it.
C3_Witness ==
  /\ IsSome(placed_msg)
  /\ Val(placed_msg).placed < tree_count
  /\ Val(placed_msg).attempts = tree_count * MaxAttemptsMultiplier
  /\ IsSome(tile_data)

\* The tile's cell, a world_tile_size square centred at (worldX, worldZ),
\* contains the point (qx / 2, qz / 2): qx and qz count half fixed-point units,
\* so that the points between two fixed-point numbers are tested too.
InCell(tile, qx, qz) ==
  /\ 2 * tile.worldX - world_tile_size <= qx
  /\ qx <= 2 * tile.worldX + world_tile_size
  /\ 2 * tile.worldZ - world_tile_size <= qz
  /\ qz <= 2 * tile.worldZ + world_tile_size

\* Every point of the rectangle b lies in a cell of the tiles.
Covered(b, tiles) ==
  \A qx \in (2 * b.minX)..(2 * b.maxX), qz \in (2 * b.minZ)..(2 * b.maxZ) :
    \E k \in 1..Len(tiles) : InCell(tiles[k], qx, qz)

ProperBounds == scene_data.bounds.minX <= scene_data.bounds.maxX
                  /\ scene_data.bounds.minZ <= scene_data.bounds.maxZ

\* C4: for content bounds with minX <= maxX and minZ <= maxZ and a world tile
\* size > 0, every point of the content bounds lies in the cell of a tile of
\* the grid calculate_tile_grid returned.
C4_TilesCoverContent ==
  (IsSome(tile_data) /\ ProperBounds /\ world_tile_size > 0) =>
    Covered(scene_data.bounds, Val(tile_data).tiles)

\* C4 witness: a grid of several columns and rows over content bounds of
\* positive width and height that are no whole number of tiles.
C4_Witness ==
  /\ IsSome(tile_data)
  /\ world_tile_size > 0
  /\ scene_data.bounds.minX < scene_data.bounds.maxX
  /\ scene_data.bounds.minZ < scene_data.bounds.maxZ
  /\ Val(tile_data).cols >= 2
  /\ Val(tile_data).rows >= 2
  /\ (scene_data.bounds.maxX - scene_data.bounds.minX) % world_tile_size # 0

GridWidth == Val(tile_data).gridBounds.maxX - Val(tile_data).gridBounds.minX
GridHeight == Val(tile_data).gridBounds.maxZ - Val(tile_data).gridBounds.minZ

\* C5 as claimed: for a world tile size > 0 the tile footprints cover
\* gridBounds exactly, cols * worldTileSize = gridBounds.maxX - gridBounds.minX
\* and rows * worldTileSize = gridBounds.maxZ - gridBounds.minZ.
C5_TilesExactlyCoverGrid ==
  (IsSome(tile_data) /\ world_tile_size > 0) =>
    /\ Val(tile_data).cols * world_tile_size = GridWidth
    /\ Val(tile_data).rows * world_tile_size = GridHeight

\* C5 amended: for a world tile size > 0, cols * worldTileSize is the width of
\* gridBounds rounded up to whole tiles (0 <= cols * worldTileSize - width <
\* worldTileSize), rows likewise; no tile cell starts before gridBounds.min and
\* none ends a whole tile or more past gridBounds.max; and when gridBounds has
\* positive width and height every point of it lies in a tile cell.
C5_TilesCoverGridRoundedUp ==
  (IsSome(tile_data) /\ world_tile_size > 0) =>
    LET td == Val(tile_data)
    IN  /\ 0 <= td.cols * world_tile_size - GridWidth
        /\ td.cols * world_tile_size - GridWidth < world_tile_size
        /\ 0 <= td.rows * world_tile_size - GridHeight
        /\ td.rows * world_tile_size - GridHeight < world_tile_size
        /\ \A k \in 1..Len(td.tiles) :
             /\ 2 * td.tiles[k].worldX - world_tile_size >= 2 * td.gridBounds.minX
             /\ 2 * td.tiles[k].worldZ - world_tile_size >= 2 * td.gridBounds.minZ
             /\ 2 * td.tiles[k].worldX + world_tile_size
                  < 2 * td.gridBounds.maxX + 2 * world_tile_size
             /\ 2 * td.tiles[k].worldZ + world_tile_size
                  < 2 * td.gridBounds.maxZ + 2 * world_tile_size
        /\ (GridWidth > 0 /\ GridHeight > 0) => Covered(td.gridBounds, td.tiles)

\* C5 witness: a grid whose tiles reach past gridBounds.maxX.
C5_Witness ==
  /\ IsSome(tile_data)
  /\ world_tile_size > 0
  /\ GridWidth > 0
  /\ GridHeight > 0
  /\ Val(tile_data).cols * world_tile_size > GridWidth
  /\ Len(Val(tile_data).tiles) >= 2

\* C6: for a world tile size > 0, gridBounds strictly contains the content
\* bounds, by exactly worldTileSize * 0.5 on each of the four sides.
C6_GridStrictlyContainsContent ==
  (IsSome(tile_data) /\ world_tile_size > 0) =>
    LET gb == Val(tile_data).gridBounds
        b == scene_data.bounds
    IN  /\ gb.minX < b.minX /\ gb.maxX > b.maxX
        /\ gb.minZ < b.minZ /\ gb.maxZ > b.maxZ
        /\ 2 * (b.minX - gb.minX) = world_tile_size
        /\ 2 * (gb.maxX - b.maxX) = world_tile_size
        /\ 2 * (b.minZ - gb.minZ) = world_tile_size
        /\ 2 * (gb.maxZ - b.maxZ) = world_tile_size

\* C6 witness: a grid computed for a positive world tile size other than the
\* default.
C6_Witness ==
  /\ IsSome(tile_data)
  /\ world_tile_size > 0
  /\ world_tile_size # W(WORLD_TILE_SIZE)
  /\ scene_data.bounds.minX # scene_data.bounds.maxX

\* The (col, row) pairs of range(cols) x range(rows).
GridPairs(cols, rows) == (0..(cols - 1)) \X (0..(rows - 1))

\* C7: calculate_tile_grid emits exactly one tile for each (col, row) of
\* [0, cols) x [0, rows) and no other tile: the list has cols * rows entries,
\* no pair occurs twice, and each tile is centred at gridBounds.min +
\* (index + 0.5) * worldTileSize.  Stated for world tile sizes > 0.
C7_OneTilePerCell ==
  (IsSome(tile_data) /\ world_tile_size > 0) =>
    LET td == Val(tile_data)
    IN  /\ Len(td.tiles) = td.cols * td.rows
        /\ {<<td.tiles[k].col, td.tiles[k].row>> : k \in 1..Len(td.tiles)}
             = GridPairs(td.cols, td.rows)
        /\ \A j, k \in 1..Len(td.tiles) :
             (td.tiles[j].col = td.tiles[k].col /\ td.tiles[j].row = td.tiles[k].row)
               => j = k
        /\ \A k \in 1..Len(td.tiles) :
             /\ 2 * td.tiles[k].worldX
                  = 2 * td.gridBounds.minX + (2 * td.tiles[k].col + 1) * world_tile_size
             /\ 2 * td.tiles[k].worldZ
                  = 2 * td.gridBounds.minZ + (2 * td.tiles[k].row + 1) * world_tile_size

\* C8: for contentBounds {minX: 0, maxX: 100, minZ: 0, maxZ: 40} and
\* worldTileSize 15 the bounds are padded by 7.5 on each side and the grid has
\* 8 columns, 4 rows and 32 tiles.
C8_ExampleGrid ==
  (IsSome(tile_data) /\ scene_data.bounds = ExampleBounds /\ world_tile_size = W(15)) =>
    /\ Val(tile_data).gridBounds = Bounds(-15, W(100) + 15, -15, W(40) + 15)
    /\ Val(tile_data).cols = 8
    /\ Val(tile_data).rows = 4
    /\ Len(Val(tile_data).tiles) = 32

\* C8 witness: the grid of the example has been computed.
C8_Witness ==
  /\ IsSome(tile_data)
  /\ scene_data.bounds = ExampleBounds
  /\ world_tile_size = W(15)
  /\ pc = "camera"

\* C9: the grid calculate_tile_grid returns has cols >= 1 and rows >= 1, and
\* so at least one tile, whatever the bounds (zero width or height, min above
\* max).  Stated for world tile sizes > 0.
C9_AtLeastOneTile ==
  (IsSome(tile_data) /\ world_tile_size > 0) =>
    /\ Val(tile_data).cols >= 1
    /\ Val(tile_data).rows >= 1
    /\ Len(Val(tile_data).tiles) >= 1

\* C10: with a scale <= 0 or a world tile size <= 0 the run fails before any
\* geometry work: no building mesh is created, no tree is scattered and no
\* tile grid is computed.
C10_FailFastOnBadConfig ==
  (scene_data.scale <= 0 \/ world_tile_size <= 0) =>
    /\ objects = <<>>
    /\ trees = <<>>
    /\ tile_data = None

\* The number of create_building calls that returned a mesh.
MeshCount == Cardinality({i \in 1..Len(results) : IsSome(results[i])})

\* The footprint has too few vertices: fewer than 3 coordinates, or fewer
\* than 3 once the closing duplicate is dropped.
TooFewVertices(b) ==
  \/ Len(b.coords) < 3
  \/ /\ Len(b.coords) = 3
     /\ Project(b.coords[1], scene_data) = Project(b.coords[3], scene_data)

\* C11: a rejected footprint never aborts the run.  create_building has been
\* called once for each footprint the loop has passed and returned None for
\* every footprint with too few vertices; the loop has not raised; once it is
\* over every footprint of the list has had its call, the rejected ones and
\* those after them included; and building_count is the number of calls that
\* returned a mesh.
C11_RejectedFootprintsSkipped ==
  /\ Len(results) = bi - 1
  /\ \A i \in 1..Len(results) : TooFewVertices(buildings[i]) => results[i] = None
  /\ pc = "buildings" => error = ""
  /\ pc # "buildings" => Len(results) = Len(buildings)
  /\ building_count = MeshCount
  /\ building_count = Len(objects)

\* C11 witness: the loop is over, a footprint with too few vertices and a
\* footprint whose bottom face failed were rejected, and a footprint after
\* each of them got its mesh.
C11_Witness ==
  /\ pc = "grid"
  /\ \E i, j, k \in 1..Len(results) :
       /\ i < k /\ j < k
       /\ TooFewVertices(buildings[i]) /\ results[i] = None
       /\ ~TooFewVertices(buildings[j]) /\ results[j] = None
       /\ IsSome(results[k])
  /\ building_count < Len(buildings)

\* The number of distinct vertices of a vertex list.
DistinctCount(vs) == Cardinality({vs[i] : i \in 1..Len(vs)})

\* The projected vertices once the last one is dropped if it equals the first.
Remaining(p) ==
  IF p # <<>> /\ p[1] = p[Len(p)] THEN SubSeq(p, 1, Len(p) - 1) ELSE p

\* C12: create_building drops the last projected vertex when it equals the
\* first (one vertex, and only then), returns None whenever fewer than 3
\* distinct vertices remain after that, and otherwise builds the face from the
\* projected vertices in their order.  Stated for scenes of positive scale.
C12_FewerThanThreeDistinctRejected ==
  scene_data.scale > 0 =>
    \A i \in 1..Len(results) :
      LET rem == Remaining(ProjectAll(buildings[i].coords, scene_data))
      IN  /\ DistinctCount(rem) < 3 => results[i] = None
          /\ IsSome(results[i]) => Val(results[i]).bottom = rem

\* The faces of the mesh o that the step part made.
Parts(o, part) == {k \in 1..Len(o.polygons) : o.polygons[k].part = part}

\* C13: a mesh create_building returns for a validated polygon of n vertices
\* has n + 2 faces: one bottom face with the n vertices of the polygon at
\* y = 0, one top face with the same n vertices at y = height * scale *
\* HEIGHT_SCALE, and n side quads, one on each edge of the polygon (4 side
\* faces for a square).  Checked in the building loop, after each call.
C13_PrismFaces ==
  pc = "buildings" => \A i \in 1..Len(results) : IsSome(results[i]) =>
    LET o == Val(results[i])
        n == Len(o.bottom)
        fs == o.polygons
    IN  /\ n >= 3
        /\ n = Len(Remaining(ProjectAll(buildings[i].coords, scene_data)))
        /\ Len(fs) = n + 2
        /\ Cardinality(Parts(o, "side")) = n
        /\ Cardinality(Parts(o, "top")) = 1
        /\ Cardinality(Parts(o, "bottom")) = 1
        /\ HEIGHT_SCALE_DEN * o.scaled_height
             = W(buildings[i].height) * scene_data.scale * HEIGHT_SCALE_NUM
        /\ \A k \in Parts(o, "bottom") :
             fs[k].verts = [j \in 1..n |-> <<o.bottom[j][1], 0, o.bottom[j][2]>>]
        /\ \A k \in Parts(o, "top") :
             fs[k].verts = [j \in 1..n |-> <<o.bottom[j][1], o.scaled_height, o.bottom[j][2]>>]
        /\ \A k \in Parts(o, "side") : Len(fs[k].verts) = 4
        /\ \A j \in 1..n :
             LET a == o.bottom[j]
                 b == o.bottom[IF j = n THEN 1 ELSE j + 1]
             IN  Cardinality({k \in Parts(o, "side") :
                    {fs[k].verts[v] : v \in 1..4}
                      = { <<a[1], 0, a[2]>>, <<b[1], 0, b[2]>>,
                          <<a[1], o.scaled_height, a[2]>>, <<b[1], o.scaled_height, b[2]>> }})
                   >= 1

\* C13 witness: the mesh of a closed ring of 4 coordinates, a prism on the 3
\* vertices left, next to a rejected footprint.
C13_Witness ==
  \E i \in 1..Len(results) :
    /\ IsSome(results[i])
    /\ Len(buildings[i].coords) = 4
    /\ Len(Val(results[i]).bottom) = 3
    /\ Len(Val(results[i]).polygons) = 5
    /\ scene_data.scale = 2

\* The faces of the mesh o that the material loop took for a roof.
Roofs(o) == {k \in 1..Len(o.polygons) : o.polygons[k].role = "roof"}

\* Twice the signed area of the polygon vs in the x-z plane.
Area2(vs) == NewellSum(vs, 1, 1, 2)

\* All the vertices of the face are at the height y.
FlatAt(vs, y) == \A v \in 1..Len(vs) : vs[v][2] = y

\* C14 as claimed: every mesh create_building returns has exactly one face
\* classified roof, and it is the top (extruded) face, whatever the sign of
\* the height.  Stated for scenes of positive scale.
C14_OneRoofTheTopFace ==
  scene_data.scale > 0 =>
    \A i \in 1..Len(objects) :
      /\ Cardinality(Roofs(objects[i])) = 1
      /\ Roofs(objects[i]) = Parts(objects[i], "top")

\* C14 amended: a roof is a level face whose height exceeds scaledHeight *
\* 0.5, a floor is a level face whose height does not, the sides are walls
\* and only a roof has material 1.  For a prism on a footprint of non-zero
\* area: with scaledHeight > 0 the one roof is the top (extruded) face, with
\* scaledHeight < 0 the one roof is the original bottom face at y = 0, and
\* with scaledHeight = 0 no face is a roof.  Checked in the building loop,
\* after each call.
C14_RoofIsTheUpperCap ==
  pc = "buildings" => \A i \in 1..Len(objects) :
    LET o == objects[i]
        fs == o.polygons
        sh == o.scaled_height
    IN  /\ \A k \in 1..Len(fs) :
             /\ fs[k].role = "roof" =>
                  \E y \in {0, sh} : FlatAt(fs[k].verts, y) /\ 2 * y > sh
             /\ fs[k].role = "floor" =>
                  \E y \in {0, sh} : FlatAt(fs[k].verts, y) /\ 2 * y <= sh
             /\ fs[k].part = "side" => fs[k].role = "wall"
             /\ fs[k].material_index = 1 <=> fs[k].role = "roof"
        /\ (Area2(o.bottom) # 0 /\ sh > 0) =>
             Roofs(o) = Parts(o, "top") /\ Cardinality(Roofs(o)) = 1
        /\ (Area2(o.bottom) # 0 /\ sh < 0) =>
             Roofs(o) = Parts(o, "bottom") /\ Cardinality(Roofs(o)) = 1
        /\ (Area2(o.bottom) # 0 /\ sh = 0) => Roofs(o) = {}

\* C14 witness: in a scene of positive scale, a mesh of negative height whose
\* roof is its bottom face, and a mesh of height 0 without a roof.
C14_Witness ==
  /\ scene_data.scale > 0
  /\ \E i, j \in 1..Len(objects) :
       /\ objects[i].scaled_height < 0
       /\ Roofs(objects[i]) = Parts(objects[i], "bottom")
       /\ objects[j].scaled_height = 0
       /\ Area2(objects[j].bottom) # 0
       /\ Roofs(objects[j]) = {}

\* The placements of a run of the scatter loop that starts with the generator
\* in state r, makes n attempts and has placed acc already: each attempt reads
\* the generator for x and z, and a location clear of the polygons polys reads
\* it for the style, the scale and the tree_scale, then for the canopy.
RECURSIVE Placements(_, _, _, _)
Placements(polys, r, n, acc) ==
  IF n = 0 \/ Len(acc) >= tree_count THEN acc
  ELSE LET b == scene_data.bounds
           x == Sample(b.minX + EdgeMargin, b.maxX - EdgeMargin, random(r))
           z == Sample(b.minZ + EdgeMargin, b.maxZ - EdgeMargin, random(Advance(r, 1)))
           style == TreeStyle(random(Advance(r, 2)))
           sc == TreeScale(random(Advance(r, 3)))
       IN  IF is_valid_tree_location(x, z, polys, TreeMargin)
           THEN Placements(polys, create_tree_canopy(Advance(r, 5), style), n - 1,
                           Append(acc, [pos |-> <<x, z>>, style |-> style, scale |-> sc,
                                        tree_scale |-> tree_scale(sc, random(Advance(r, 4)))]))
           ELSE Placements(polys, Advance(r, 2), n - 1, acc)

\* The placements scatter_trees has made: position, style, scale, tree_scale.
Placed ==
  [t \in 1..Len(trees) |->
     [pos |-> trees[t], style |-> tree_params[t].style, scale |-> tree_params[t].scale,
      tree_scale |-> tree_params[t].tree_scale]]

Candidate ==
  << Sample(scene_data.bounds.minX + EdgeMargin, scene_data.bounds.maxX - EdgeMargin,
            random(rng)),
     Sample(scene_data.bounds.minZ + EdgeMargin, scene_data.bounds.maxZ - EdgeMargin,
            random(Advance(rng, 1))) >>

\* C16: the obstacle set is fixed before the sampling loop and the loop never
\* changes it.  In every step of the loop building_polys is the list of the
\* projected footprints and stays what it is, also when the step reassigns the
\* local variable scale, and an attempt places its tree exactly when the
\* location keeps clear of the footprints' polygons, whatever trees were
\* placed before.
C16_ObstaclesFixed ==
  [][pc = "scatter" =>
       /\ building_polys = BuildPolys(buildings, scene_data)
       /\ building_polys' = building_polys
       /\ pc' = "scatter" =>
            ((placed' = placed + 1)
               <=> is_valid_tree_location(Candidate[1], Candidate[2],
                                          BuildPolys(buildings, scene_data), TreeMargin))]_vars

\* C16 witness: the loop has placed a tree at a location where it had placed
\* one before, with footprints to avoid and the local scale reassigned.
C16_Witness ==
  /\ Len(trees) = 2
  /\ trees[1] = trees[2]
  /\ building_polys # <<>>
  /\ scale # Some(scene_data.scale * ScaleDen)

\* C17: every tree scatter_trees placed lies inside the ground bounds shrunk
\* by 3.0 on every side, minX + 3 <= x <= maxX - 3 and minZ + 3 <= z <= maxZ - 3,
\* also for bounds narrower than 6.0.  Stated for scenes of positive scale.
C17_TreesInsideShrunkBounds ==
  scene_data.scale > 0 =>
    \A t \in 1..Len(trees) :
      /\ scene_data.bounds.minX + EdgeMargin <= trees[t][1]
      /\ trees[t][1] <= scene_data.bounds.maxX - EdgeMargin
      /\ scene_data.bounds.minZ + EdgeMargin <= trees[t][2]
      /\ trees[t][2] <= scene_data.bounds.maxZ - EdgeMargin

\* The footprints scatter_trees makes an obstacle polygon of, in order.
ObstacleFootprints == SelectSeq(buildings, LAMBDA b : Len(b.coords) >= 3)

\* The vertices vs are the projection of the coordinates cs: a coordinate at
\* the reference centre is at (0, 0).
CentreAtOrigin(cs, vs) ==
  \A a \in 1..Len(vs) :
    cs[a] = <<scene_data.centerLon, scene_data.centerLat>> => vs[a] = <<0, 0>>

\* The vertices vs are the projection of the coordinates cs: x grows with the
\* longitude and z falls as the latitude grows.
Monotonic(cs, vs) ==
  \A a, b \in 1..Len(vs) :
    /\ cs[a][1] < cs[b][1] => vs[a][1] < vs[b][1]
    /\ cs[a][2] < cs[b][2] => vs[a][2] > vs[b][2]

\* C18: the projection of create_building and of scatter_trees maps the
\* reference centre to (0, 0), and for scale > 0 and |centerLat| < 90 it is
\* strictly increasing in the longitude for x and strictly decreasing in the
\* latitude for z.  Checked in the building loop, after each call, and when
\* scatter_trees has built its polygons.
C18_ProjectionMonotonic ==
  /\ pc = "buildings" => \A i \in 1..Len(results) : IsSome(results[i]) =>
       /\ CentreAtOrigin(buildings[i].coords, Val(results[i]).bottom)
       /\ (scene_data.scale > 0 /\ Abs(scene_data.centerLat) < 90 * DegDen)
            => Monotonic(buildings[i].coords, Val(results[i]).bottom)
  /\ (pc = "scatter" /\ attempts = 0) => \A k \in 1..Len(building_polys) :
       /\ CentreAtOrigin(ObstacleFootprints[k].coords, building_polys[k])
       /\ (scene_data.scale > 0 /\ Abs(scene_data.centerLat) < 90 * DegDen)
            => Monotonic(ObstacleFootprints[k].coords, building_polys[k])

\* C18 witness: at the centre latitude 60 and the scale 2, the mesh and the
\* obstacle polygon of a footprint with a vertex at the reference centre.
C18_Witness ==
  /\ scene_data.scale = 2
  /\ scene_data.centerLat = 60 * DegDen
  /\ \E i \in 1..Len(results) :
       /\ IsSome(results[i])
       /\ buildings[i].coords[1] = <<scene_data.centerLon, scene_data.centerLat>>
       /\ Val(results[i]).bottom[2][1] > 0
       /\ Val(results[i]).bottom[3][2] < 0
  /\ building_polys # <<>>

\* C19: for a scale > 0, a coordinate create_building projected is recovered
\* from its vertex by the inverse formulas lon = centerLon + x /
\* (metersPerDegLon * scale), lat = centerLat - z / (metersPerDegLat * scale),
\* to within one unit of the fixed-point degrees.  Checked in the building
\* loop, after each call.
C19_ProjectionRoundTrip ==
  (pc = "buildings" /\ scene_data.scale > 0) =>
    \A i \in 1..Len(results) : IsSome(results[i]) =>
      \A a \in 1..Len(Val(results[i]).bottom) :
        LET g == Unproject(Val(results[i]).bottom[a], scene_data)
        IN  /\ Abs(g[1] - buildings[i].coords[a][1]) <= 1
            /\ Abs(g[2] - buildings[i].coords[a][2]) <= 1

\* C19 witness: a mesh built at the scale 2 round a centre off the equator
\* and off the zero meridian, with vertices on either side of the centre.
C19_Witness ==
  /\ scene_data.scale = 2
  /\ scene_data.centerLat # 0
  /\ scene_data.centerLon # 0
  /\ \E i \in 1..Len(results) :
       /\ IsSome(results[i])
       /\ \E a, b \in 1..Len(Val(results[i]).bottom) :
            /\ Val(results[i]).bottom[a][1] < 0 /\ Val(results[i]).bottom[b][1] > 0
            /\ Val(results[i]).bottom[a][2] < 0 /\ Val(results[i]).bottom[b][2] > 0

\* C20 as claimed: the manifest carries the grid as calculate_tile_grid
\* computed it: the returned cols and rows, the configured worldTileSize and
\* tileSize, width = cols * tileSize, height = rows * tileSize, and in bounds
\* the grid bounds.  Stated for world tile sizes > 0.
C20_ManifestCarriesGridBounds ==
  (IsSome(manifest) /\ world_tile_size > 0) =>
    /\ Val(manifest).cols = Val(tile_data).cols
    /\ Val(manifest).rows = Val(tile_data).rows
    /\ Val(manifest).worldTileSize = world_tile_size
    /\ Val(manifest).tileSize = tile_size
    /\ Val(manifest).width = Val(tile_data).cols * tile_size
    /\ Val(manifest).height = Val(tile_data).rows * tile_size
    /\ Val(manifest).bounds = Val(tile_data).gridBounds

\* C20 amended: the same, but bounds holds the content bounds
\* scene_data["bounds"] that calculate_tile_grid was given, without the
\* padding, not the grid bounds it returned.
C20_ManifestCarriesContentBounds ==
  IsSome(manifest) =>
    /\ Val(manifest).cols = Val(tile_data).cols
    /\ Val(manifest).rows = Val(tile_data).rows
    /\ Val(manifest).worldTileSize = world_tile_size
    /\ Val(manifest).tileSize = tile_size
    /\ Val(manifest).width = Val(tile_data).cols * tile_size
    /\ Val(manifest).height = Val(tile_data).rows * tile_size
    /\ Val(manifest).bounds = scene_data.bounds
    /\ world_tile_size # 0 /\ Val(manifest).bounds # Val(tile_data).gridBounds

\* C20 witness: the manifest of a grid with more columns than rows, computed
\* for a world tile size other than the default.
C20_Witness ==
  /\ pc = "done"
  /\ IsSome(manifest)
  /\ Val(manifest).cols > Val(manifest).rows
  /\ Val(manifest).rows >= 2
  /\ world_tile_size > 0
  /\ world_tile_size # W(WORLD_TILE_SIZE)

C22_InputsReadOnly ==
  [][buildings' = buildings /\ scene_data' = scene_data]_vars

\* C22 witness: the run is over; create_building dropped the closing duplicate
\* of a footprint whose coords list still has its 4 entries, scatter_trees
\* placed a tree and assigned its local scale, and the grid was computed.
C22_Witness ==
  /\ pc = "done"
  /\ \E i \in 1..Len(results) :
       /\ IsSome(results[i])
       /\ Len(buildings[i].coords) = 4
       /\ Len(Val(results[i]).bottom) = 3
  /\ Len(trees) >= 1
  /\ IsSome(scale) /\ Val(scale) # scene_data.scale * ScaleDen
  /\ IsSome(tile_data)

\* The points the scatter loop can sample in the ground bounds.
SamplePoints ==
  { << Sample(scene_data.bounds.minX + EdgeMargin, scene_data.bounds.maxX - EdgeMargin, kx),
       Sample(scene_data.bounds.minZ + EdgeMargin, scene_data.bounds.maxZ - EdgeMargin, kz) >> :
      kx \in 0..(RandDen - 1), kz \in 0..(RandDen - 1) }

\* C23: the geometric tests of scatter_trees never divide by zero.  For every
\* obstacle polygon and every point the loop can sample, point_in_polygon
\* divides by zj - zi only on an edge with zi # zj, is_valid_tree_location
\* divides by length_sq only on an edge of non-zero length, and the projection
\* parameter t of every such edge is within [0, 1].  Checked when scatter_trees
\* has built its polygons, which the loop never changes.
C23_NoDivisionByZero ==
  (pc = "scatter" /\ attempts = 0) =>
    \A k \in 1..Len(building_polys) :
      LET poly == building_polys[k]
      IN  /\ 0 \notin LengthDivisors(poly)
          /\ \A p \in SamplePoints :
               /\ 0 \notin CrossingDivisors(p[1], p[2], poly)
               /\ \A i \in 1..Len(poly) : EdgeTested(LengthSq(poly, i)) =>
                    LET a == poly[i]
                        b == poly[(i % Len(poly)) + 1]
                        tn == ClampedT((p[1] - a[1]) * (b[1] - a[1])
                                         + (p[2] - a[2]) * (b[2] - a[2]), LengthSq(poly, i))
                    IN  0 <= tn /\ tn <= LengthSq(poly, i)

\* C23 witness: the loop has tested a location against a polygon with an edge
\* of length 0, and the next location lies level with a vertex (zi = pz) of a
\* polygon of which it crosses an edge, whose zj - zi it divides by.
C23_Witness ==
  /\ pc = "scatter"
  /\ attempts >= 1
  /\ LoopCondition
  /\ \E k \in 1..Len(building_polys) :
       \E i \in 1..Len(building_polys[k]) : LengthSq(building_polys[k], i) = 0
  /\ \E k \in 1..Len(building_polys) :
       LET poly == building_polys[k]
       IN  /\ \E i \in 1..Len(poly) : poly[i][2] = Candidate[2]
           /\ CrossingDivisors(Candidate[1], Candidate[2], poly) # {}

\* C24: the obstacle set of scatter_trees is exactly the set of validated
\* polygons that produced building meshes: a footprint is an obstacle if and
\* only if create_building returned a mesh for it, and the obstacle polygon
\* has the vertex sequence of the mesh's bottom face once its closing
\* duplicate is removed.  Stated for scenes of positive scale in which no
\* bottom face was refused: every footprint without a mesh had too few
\* vertices.
C24_ObstaclesAreTheMeshes ==
  (/\ pc = "scatter"
   /\ scene_data.scale > 0
   /\ \A i \in 1..Len(results) : results[i] = None => TooFewVertices(buildings[i]))
    => /\ Len(building_polys) = Len(objects)
       /\ \A k \in 1..Min(Len(building_polys), Len(objects)) :
            Remaining(building_polys[k]) = objects[k].bottom

\* The model file of the config is missing: no modelPath, an empty one, or a
\* path that does not exist.
NoModelFile ==
  \/ Val(google_tiles_config).modelPath = None
  \/ Val(google_tiles_config).modelPath = Some(Path("", ""))
  \/ Val(Val(google_tiles_config).modelPath) \notin model_files

\* The model file of the config has none of the formats glb, gltf, obj, fbx.
UnsupportedFormat ==
  /\ Val(google_tiles_config).modelPath # None
  /\ Val(Val(google_tiles_config).modelPath).ext
       \notin {".glb", ".GLB", ".gltf", ".GLTF", ".obj", ".OBJ", ".fbx", ".FBX"}

\* C30: main skips the OSM buildings if and only if a Google Tiles config is
\* present, import_google_tiles returned at least one mesh object and
\* replaceBuildings is true; then create_building is never called.  In every
\* other case (no config, missing or unsupported model file, import operator
\* raising, empty import, replaceBuildings false or absent) create_building is
\* called for every footprint.  import_google_tiles returns an empty list,
\* without raising, when the model path is missing or the format unsupported.
C30_OsmSkippedIffReplaced ==
  pc # "google" =>
    LET given == ConfigGiven(google_tiles_config)
    IN  /\ use_osm_buildings
             = ~(/\ given
                 /\ Len(google_tiles_objects) >= 1
                 /\ Val(google_tiles_config).replaceBuildings = Some(TRUE))
        /\ ~use_osm_buildings => (results = <<>> /\ objects = <<>>)
        /\ (use_osm_buildings /\ pc = "grid") => Len(results) = Len(buildings)
        /\ (given /\ (NoModelFile \/ UnsupportedFormat)) =>
             (google_tiles_objects = <<>> /\ error = "" /\ use_osm_buildings)
        /\ (given /\ (import_outcome.kind = "raise" \/ import_outcome.meshes = 0)) =>
             (google_tiles_objects = <<>> /\ use_osm_buildings)
        /\ (given /\ Val(google_tiles_config).replaceBuildings \in {None, Some(FALSE)}) =>
             use_osm_buildings
        /\ ~given => (google_tiles_objects = <<>> /\ use_osm_buildings)

\* C30 witness: the import of an existing model file of a supported format
\* returned two mesh objects, replaceBuildings is true, and main has passed
\* the buildings without a create_building call for its two footprints.
C30_Witness ==
  /\ pc = "grid"
  /\ ~use_osm_buildings
  /\ Len(google_tiles_objects) = 2
  /\ building_count = 2
  /\ Len(buildings) = 2
  /\ results = <<>>

\* C25: every building feature process_buildings produces has a height
\* strictly greater than 0, whatever the height tag, the building:levels tag,
\* the building type and the name.
C25_FeatureHeightsPositive ==
  \A i \in 1..Len(features) : features[i].height > 0

\* What Python's float() makes of the height tags of the scenarios once "m"
\* and "'" are removed, in tenths of a metre; the other tags raise ValueError.
ParseableHeights ==
  { <<<<"1", "2", ".", "5">>, 125>>, <<<<"1", "2", " ", "m">>, 120>>, <<<<"3", "'">>, 30>>, <<<<"0">>, 0>>, <<<<"-", "5">>, -50>> }
\* What Python's int() makes of the building:levels tags of the scenarios.
ParseableLevels ==
  { <<<<"4">>, 4>>, <<<<" ", "2", " ">>, 2>>, <<<<"0">>, 0>>, <<<<"-", "1">>, -1>> }
\* The names of the scenarios that contain a landmark, with its height.
LandmarkNames ==
  { <<<<"t", "h", "e", " ", "O", "H", "I", "O", " ", "S", "T", "A", "D", "I", "U", "M", " ", "a", "n", "n", "e", "x">>, 30>>, <<<<"O", "h", "i", "o", " ", "U", "n", "i", "o", "n", " ", "a", "t", " ", "O", "h", "i", "o", " ", "S", "t", "a", "d", "i", "u", "m">>, 30>> }

\* The value a table of pairs gives an optional key: None when the key is
\* absent or not in the table.
Lookup(table, key) ==
  IF IsSome(key) /\ \E p \in table : p[1] = Val(key)
  THEN Some((CHOOSE p \in table : p[1] = Val(key))[2])
  ELSE None

\* The height the priority order gives a tags dict, in tenths of a metre.
PriorityHeight(tags) ==
  IF IsSome(Lookup(LandmarkNames, tags.name))
  THEN 10 * Val(Lookup(LandmarkNames, tags.name))
  ELSE IF IsSome(Lookup(ParseableHeights, tags.height))
  THEN Val(Lookup(ParseableHeights, tags.height))
  ELSE IF IsSome(Lookup(ParseableLevels, tags.levels))
  THEN 35 * Val(Lookup(ParseableLevels, tags.levels))
  ELSE IF Val(tags.building) \in DOMAIN type_heights
  THEN 10 * type_heights[Val(tags.building)]
  ELSE 105

\* C26: estimate_height takes the height of a landmark in the name, else a
\* parseable height tag, else a parseable building:levels tag times 3.5, else
\* the height of the building type, else 10.5; an unparseable height or
\* building:levels tag is no error, the building still gets its feature.
C26_HeightByPriority ==
  raw_buildings \in { Some(f) : f \in TagFiles } =>
    /\ \A i \in 1..Len(features) : features[i].height = PriorityHeight(features[i].osm_tags)
    /\ ppc \in { "landuse", "done" } => Len(features) = 1

\* An unparseable height tag has fallen through to the building:levels tag.
C26_Witness ==
  /\ ppc = "done"
  /\ \E i \in 1..Len(features) :
       /\ features[i].osm_tags.height = Some(<<"t", "a", "l", "l">>)
       /\ features[i].osm_tags.levels = Some(<<"4">>)
       /\ features[i].height = 140
       /\ features[i].osm_tags.building = Some("garage")

\* The ways of a raw file, none when the file does not exist.
WaysOf(raw) == IF IsSome(raw) THEN Val(raw).ways ELSE <<>>

\* Every node the way refers to is in the index, and there are 3 or more.
Resolved(way, nodes) ==
  /\ IsSome(way.nodes)
  /\ \A i \in 1..Len(Val(way.nodes)) : Val(way.nodes)[i] \in DOMAIN nodes
  /\ Len(Val(way.nodes)) >= 3

HasBuildingTag(way) == IsSome(way.tags) /\ IsSome(Val(way.tags).building)
IsStadium(way) == IsSome(way.tags) /\ Val(way.tags).leisure = Some("stadium")

\* The ways process_buildings is to emit, in the order of the files.
EmittedBuildings ==
  SelectSeq(WaysOf(raw_buildings),
            LAMBDA w : HasBuildingTag(w) /\ Resolved(w, Val(raw_buildings).nodes))
EmittedStadiums ==
  IF IsSome(raw_buildings)
  THEN SelectSeq(WaysOf(raw_landuse),
                 LAMBDA w : IsStadium(w) /\ Resolved(w, Val(raw_landuse).nodes))
  ELSE <<>>

\* C27 as claimed: a feature is emitted only for a way that carries a
\* building tag and whose polygon has 3 or more coordinates.
C27_OnlyBuildingWays ==
  \A i \in 1..Len(features) :
    /\ IsSome(features[i].osm_tags.building)
    /\ Len(features[i].coordinates) >= 3

\* C27, amended: a feature is emitted only for a way of the buildings file
\* that carries a building tag or a way of the landuse file whose leisure is
\* stadium, and only when each of its nodes is in the index and there are 3
\* or more; its polygon is the coordinates of the way's nodes in their order.
C27_FeaturesOfResolvedWays ==
  LET emitted == EmittedBuildings \o EmittedStadiums
  IN  /\ Len(features) <= Len(emitted)
      /\ \A i \in 1..Len(features) :
           /\ features[i].id = emitted[i].id
           /\ Len(features[i].coordinates) >= 3
           /\ features[i].coordinates =
                [k \in 1..Len(Val(emitted[i].nodes)) |-> NodeIndex[Val(emitted[i].nodes)[k]]]
      /\ ppc = "done" => Len(features) = Len(emitted)

\* The run has ended with the feature of a building and of a stadium that
\* carries no building tag, and without the ways that miss a node.
C27_Witness ==
  /\ ppc = "done"
  /\ \E i, j \in 1..Len(features) :
       /\ features[i].id = 101
       /\ features[j].id = 201
       /\ ~IsSome(features[j].osm_tags.building)
  /\ \A i \in 1..Len(features) : features[i].id \notin { 102, 108, 203 }

ExportRun ==
  << "apiKey", "outputDir", "addon", "clear", "configure", "import", "export", "metadata" >>
ManualRun ==
  << "apiKey", "outputDir", "addon", "clear", "configure", "import", "save" >>

Taken(step) == \E k \in 1..Len(steps) : steps[k] = step
Ended == fpc \in { "exit", "done", "error" }
Validated ==
  /\ fetch_config.apiKey \notin { None, Some("") }
  /\ fetch_config.outputDir \notin { None, Some("") }
  /\ blender.addon # "missing"
ImportSucceeded == blender.op \in { "import_data", "import_scene" }

\* C29: main validates apiKey, validates outputDir, checks the addon, clears
\* the scene, configures, imports, exports and writes the metadata in this
\* order; it clears the scene and imports only with apiKey, outputDir and the
\* addon, and exits with code 1 without them; it exports and writes the
\* metadata only after an import that succeeded; after one that failed it
\* saves the .blend file and exits with code 0.
C29_FetchStepOrder ==
  /\ \/ \E n \in 0..Len(ExportRun) : steps = SubSeq(ExportRun, 1, n)
     \/ \E n \in 0..Len(ManualRun) : steps = SubSeq(ManualRun, 1, n)
  /\ Taken("clear") \/ Taken("import") => Validated
  /\ Ended /\ blender.args /\ ~Validated =>
       exit_code = Some(1) /\ ~Taken("clear") /\ ~Taken("import")
  /\ Taken("export") \/ Taken("metadata") => Taken("import") /\ ImportSucceeded
  /\ Ended /\ Taken("import") /\ ~ImportSucceeded =>
       /\ steps = ManualRun
       /\ exit_code = Some(0)
  /\ Ended /\ Taken("import") /\ ImportSucceeded => Taken("export")

\* A run whose import failed has ended, and so has one that exported.
C29_Witness ==
  /\ Ended
  /\ Validated
  /\ \/ steps = ManualRun /\ blender.op = "no_operator" /\ exit_code = Some(0)
     \/ steps = ExportRun /\ blender.op = "import_data" /\ exit_code = None
====
